---------------------------- MODULE Spec2Model ----------------------------
(***************************************************************************)
(* Session directory and connection orchestrator of the KPI planning tool. *)
(*                                                                         *)
(* The repository holds three revisions of the in-memory session           *)
(* directory:                                                              *)
(*   "queue" : src/src/signaling.ts lines 1-143   (join-request queue)     *)
(*   "slot"  : src/src/signaling.ts lines 145-289 (single pending offer)   *)
(*   "api"   : src/api/_signaling.ts              (queue, sweep inlined    *)
(*             into createSession, no timer)                               *)
(* Exactly one of them is deployed in a run; `variant` records which.      *)
(*                                                                         *)
(* Every directory operation is a synchronous JavaScript function, so it   *)
(* runs to completion without interleaving: one action per operation.      *)
(* Date.now() is read as the single value `now` during one operation.      *)
(* Handshake blobs (offers, answers) are opaque non-empty strings; each    *)
(* published blob is modelled by a fresh number so that the publication    *)
(* it stems from can be told apart.                                        *)
(***************************************************************************)
EXTENDS Integers, Sequences, FiniteSets, TLC

VARIABLES
    variant,      \* which revision of the directory is deployed
    now,          \* Date.now(), in milliseconds
    ticks,        \* number of clock advances so far (bounded)
    sessions,     \* the module-level Map<string, Session>
    ret,          \* the call made in the last step and what it returned
    issued,       \* number of handshake blobs published so far
    offerReads,   \* history: offer -> number of calls that returned it
    answerReads,  \* history: answer -> number of calls that returned it
    ousted,       \* history: <<name, hostId>> whose record another host's createSession replaced
    polledSince,  \* history: names polled by getJoinRequests since the last submitJoinRequest
    drained,      \* history: answer slots read since the last submitAnswer
    sessionState,   \* useState: idle | connecting | hosting | connected | error
    errorMessage,   \* useState: the message shown with sessionState = error
    peersShown,     \* useState: the peers list (peerCount = its connected entries)
    sessionNameRef, \* sessionNameRef.current (sessionName is set with it)
    isHostRef,      \* isHostRef.current
    hostIdRef,      \* hostIdRef.current
    peersRef,       \* peersRef.current: the Map, in insertion order
    subRef,         \* sessionSubRef.current: 0 for null, else the number of the
                    \* connectToSession call that made the subscription
    subOpen,        \* whether that subscription is still open (not closed)
    attempts,       \* number of connectToSession calls so far
    uuids,          \* number of crypto.randomUUID() calls so far
    conns,          \* every RTCPeerConnection the client has constructed
    tasks,          \* requests in flight, pending promise continuations and timers
    held,           \* the offer a remote joiner has obtained and not yet answered
    remoteCalls,    \* number of directory calls made by remote participants
    superseded,     \* history: connectToSession calls up to this number were
                    \* followed by a leaveSession or connectToSession call
    last,           \* history: the client step taken last
    docs,           \* per participant, the updates its Y.Doc has integrated
    hostPeers,      \* the host's peersRef.current, per joiner
    joinerPeers,    \* per joiner, the "host" entry of its peersRef.current
    links,          \* per joiner, readyState of each end of its data channel
    wire,           \* per joiner, the messages in flight in each direction
    edits,          \* number of local edits so far (bounded)
    drops,          \* number of link failures so far (bounded)
    snapshots,      \* history: full-state messages sent on a joiner's channel
    ev,             \* history: the relay step taken last
    joinAttemptRef,   \* joinAttemptRef.current of the callback revision
    joinedSessionRef, \* joinedSessionRef.current: the name the joiner stays in
    pollRef,          \* pollRef.current: 0 for null, else the interval's handle
    saveTimerRef,     \* saveTimerRef.current: 0 for null, else the timer's handle
    saveTimers,       \* the setTimeout timers of the save effect not yet fired
    saveLog           \* history: the update events and the saves, in order

dirVars ==
    <<variant, now, ticks, sessions, ret, issued, offerReads, answerReads,
      ousted, polledSince, drained>>

cliVars ==
    <<sessionState, errorMessage, peersShown, sessionNameRef, isHostRef, hostIdRef,
      peersRef, subRef, subOpen, attempts, uuids, conns, tasks, held, remoteCalls,
      superseded, last>>

relayVars ==
    <<docs, hostPeers, joinerPeers, links, wire, edits, drops, snapshots, ev>>

joinVars == <<joinAttemptRef, joinedSessionRef, pollRef>>

saveVars == <<saveTimerRef, saveTimers, saveLog>>

----------------------------------------------------------------------------
(* Bounds of the model *)

MaxTicks == 2
MaxBlobs == 2

(* Program constants *)

SESSION_MAX_AGE_MS == 1800000
HOST_POLL_TIMEOUT_MS == 120000
STALE_TAKEOVER_MS == 10000

(* Inputs *)

Names == {"alpha"}
HostIds == {"h1", "h2"}
PeerIds == {"p1", "p2"}
Null == "null"
\* pendingAnswer: null, as a value comparable with {peerId, answer}
NullAnswer == [peerId |-> Null, answer |-> Null]
\* The i-th handshake blob published in a run
Blob(i) == ToString(i)

\* Clock advances: the takeover threshold (a record polled at t is not yet
\* stale at t + 10 s and is stale one advance later), the poll timeout and
\* the maximum age.
TickSteps == {STALE_TAKEOVER_MS, HOST_POLL_TIMEOUT_MS, SESSION_MAX_AGE_MS}

----------------------------------------------------------------------------
(* Map helpers: a Map<string, V> is a function on the set of its keys *)

Has(S, k) == k \in DOMAIN S
Put(S, k, v) == [x \in DOMAIN S \cup {k} |-> IF x = k THEN v ELSE S[x]]
Del(S, k) == [x \in DOMAIN S \ {k} |-> S[x]]
EmptyMap == [x \in {} |-> Null]

\* An insertion-ordered Map<peerId, V> is a sequence of entries with distinct
\* peerId; set() on an existing key replaces the value in place.
KeyIndex(q, k) ==
    IF \E i \in 1..Len(q) : q[i].peerId = k
    THEN CHOOSE i \in 1..Len(q) : q[i].peerId = k
    ELSE 0
OrdPut(q, e) ==
    IF KeyIndex(q, e.peerId) = 0 THEN Append(q, e)
    ELSE [q EXCEPT ![KeyIndex(q, e.peerId)] = e]
OrdDel(q, k) == SelectSeq(q, LAMBDA e : e.peerId # k)

----------------------------------------------------------------------------
(* Cleanup: the periodic sweep (signaling.ts) / cleanup() (api/_signaling.ts) *)

\* The sweep condition with the poll timeout taken as the takeover threshold.
ExpiredEarly(s, t) ==
    \/ t - s.createdAt > SESSION_MAX_AGE_MS
    \/ t - s.lastHostPoll >= STALE_TAKEOVER_MS

Expired(s, t) ==
    \/ t - s.createdAt > SESSION_MAX_AGE_MS
    \/ t - s.lastHostPoll > HOST_POLL_TIMEOUT_MS

\* A sweep that applies the poll timeout only.
cleanupPollOnly(S, t) ==
    [n \in {m \in DOMAIN S : ~(t - S[m].lastHostPoll > HOST_POLL_TIMEOUT_MS)} |-> S[n]]

cleanup(S, t) == [n \in {m \in DOMAIN S : ~Expired(S[m], t)} |-> S[n]]

\* The takeover test written inline in joinSession and createSession.
\* The takeover test with >= in place of >.
StaleInclusive(s, t) == t - s.lastHostPoll >= STALE_TAKEOVER_MS

Stale(s, t) == t - s.lastHostPoll > STALE_TAKEOVER_MS

----------------------------------------------------------------------------
(* Single-slot directory, src/src/signaling.ts lines 145-289.              *)
(* Each operator returns the Map after the call (S) and the value the      *)
(* function returns (res).                                                 *)

\* joinSession that hands out the offer without consuming it.
joinSessionNoConsume(S, t, name) ==
    IF ~Has(S, name)
    THEN [S |-> S, res |-> [ok |-> TRUE, role |-> "host"]]
    ELSE IF Stale(S[name], t)
    THEN [S |-> Del(S, name), res |-> [ok |-> TRUE, role |-> "host"]]
    ELSE IF S[name].currentOffer # Null
    THEN [S |-> S,
          res |-> [ok |-> TRUE, role |-> "joiner", offer |-> S[name].currentOffer]]
    ELSE [S |-> S, res |-> [ok |-> FALSE, error |-> "Session busy, try again"]]

\* joinSession that reports a stale record as vacant without deleting it.
joinSessionKeepsStale(S, t, name) ==
    IF ~Has(S, name) \/ Stale(S[name], t)
    THEN [S |-> S, res |-> [ok |-> TRUE, role |-> "host"]]
    ELSE IF S[name].currentOffer # Null
    THEN [S |-> [S EXCEPT ![name].currentOffer = Null],
          res |-> [ok |-> TRUE, role |-> "joiner", offer |-> S[name].currentOffer]]
    ELSE [S |-> S, res |-> [ok |-> FALSE, error |-> "Session busy, try again"]]

\* joinSession that counts the joiner's request as a sign of life of the host.
joinSessionRefreshes(S, t, name) ==
    IF ~Has(S, name)
    THEN [S |-> S, res |-> [ok |-> TRUE, role |-> "host"]]
    ELSE IF Stale(S[name], t)
    THEN [S |-> Del(S, name), res |-> [ok |-> TRUE, role |-> "host"]]
    ELSE IF S[name].currentOffer # Null
    THEN [S |-> [S EXCEPT ![name].currentOffer = Null, ![name].lastHostPoll = t],
          res |-> [ok |-> TRUE, role |-> "joiner", offer |-> S[name].currentOffer]]
    ELSE [S |-> S, res |-> [ok |-> FALSE, error |-> "Session busy, try again"]]

joinSession(S, t, name) ==
    IF ~Has(S, name)
    THEN [S |-> S, res |-> [ok |-> TRUE, role |-> "host"]]
    ELSE IF Stale(S[name], t)
    THEN [S |-> Del(S, name), res |-> [ok |-> TRUE, role |-> "host"]]
    ELSE IF S[name].currentOffer # Null
    THEN [S |-> [S EXCEPT ![name].currentOffer = Null],
          res |-> [ok |-> TRUE, role |-> "joiner", offer |-> S[name].currentOffer]]
    ELSE [S |-> S, res |-> [ok |-> FALSE, error |-> "Session busy, try again"]]

\* createSession that keeps the age of the record it replaces.
createSessionKeepsAge(S, t, name, hostId, offer) ==
    IF Has(S, name) /\ ~Stale(S[name], t)
    THEN [S |-> S, res |-> [ok |-> FALSE, error |-> "Session name already taken"]]
    ELSE [S |-> Put(S, name, [name |-> name, hostId |-> hostId,
                              createdAt |-> IF Has(S, name) THEN S[name].createdAt ELSE t,
                              lastHostPoll |-> t,
                              currentOffer |-> offer, pendingAnswer |-> NullAnswer]),
          res |-> [ok |-> TRUE]]

\* createSession that does not look at the record the name already has.
createSessionOverwrites(S, t, name, hostId, offer) ==
    [S |-> Put(S, name, [name |-> name, hostId |-> hostId,
                         createdAt |-> t, lastHostPoll |-> t,
                         currentOffer |-> offer, pendingAnswer |-> NullAnswer]),
     res |-> [ok |-> TRUE]]

createSession(S, t, name, hostId, offer) ==
    IF Has(S, name) /\ ~Stale(S[name], t)
    THEN [S |-> S, res |-> [ok |-> FALSE, error |-> "Session name already taken"]]
    ELSE [S |-> Put(S, name, [name |-> name, hostId |-> hostId,
                              createdAt |-> t, lastHostPoll |-> t,
                              currentOffer |-> offer, pendingAnswer |-> NullAnswer]),
          res |-> [ok |-> TRUE]]

submitAnswer(S, name, peerId, answer) ==
    IF ~Has(S, name)
    THEN [S |-> S, res |-> [ok |-> FALSE, error |-> "Session not found"]]
    ELSE [S |-> [S EXCEPT ![name].pendingAnswer =
                              [peerId |-> peerId, answer |-> answer]],
          res |-> [ok |-> TRUE]]

\* pollAnswer that returns the pending answer without clearing it.
pollAnswerKeeps(S, t, name, hostId) ==
    IF ~Has(S, name)
    THEN [S |-> S, res |-> [ok |-> FALSE, error |-> "Session not found"]]
    ELSE IF S[name].hostId # hostId
    THEN [S |-> S, res |-> [ok |-> FALSE, error |-> "Not the host"]]
    ELSE IF S[name].pendingAnswer # NullAnswer
    THEN [S |-> [S EXCEPT ![name].lastHostPoll = t],
          res |-> [ok |-> TRUE, peerId |-> S[name].pendingAnswer.peerId,
                   answer |-> S[name].pendingAnswer.answer]]
    ELSE [S |-> [S EXCEPT ![name].lastHostPoll = t],
          res |-> [ok |-> TRUE, peerId |-> Null]]

\* pollAnswer that refreshes lastHostPoll before it checks the caller.
pollAnswerRefreshFirst(S, t, name, hostId) ==
    IF ~Has(S, name)
    THEN [S |-> S, res |-> [ok |-> FALSE, error |-> "Session not found"]]
    ELSE IF S[name].hostId # hostId
    THEN [S |-> [S EXCEPT ![name].lastHostPoll = t],
          res |-> [ok |-> FALSE, error |-> "Not the host"]]
    ELSE IF S[name].pendingAnswer # NullAnswer
    THEN [S |-> [S EXCEPT ![name].lastHostPoll = t, ![name].pendingAnswer = NullAnswer],
          res |-> [ok |-> TRUE, peerId |-> S[name].pendingAnswer.peerId,
                   answer |-> S[name].pendingAnswer.answer]]
    ELSE [S |-> [S EXCEPT ![name].lastHostPoll = t],
          res |-> [ok |-> TRUE, peerId |-> Null]]

pollAnswer(S, t, name, hostId) ==
    IF ~Has(S, name)
    THEN [S |-> S, res |-> [ok |-> FALSE, error |-> "Session not found"]]
    ELSE IF S[name].hostId # hostId
    THEN [S |-> S, res |-> [ok |-> FALSE, error |-> "Not the host"]]
    ELSE IF S[name].pendingAnswer # NullAnswer
    THEN [S |-> [S EXCEPT ![name].lastHostPoll = t, ![name].pendingAnswer = NullAnswer],
          res |-> [ok |-> TRUE, peerId |-> S[name].pendingAnswer.peerId,
                   answer |-> S[name].pendingAnswer.answer]]
    ELSE [S |-> [S EXCEPT ![name].lastHostPoll = t],
          res |-> [ok |-> TRUE, peerId |-> Null]]

\* replaceOffer that writes the caller as host instead of checking it.
replaceOfferAdopts(S, name, hostId, offer) ==
    IF ~Has(S, name)
    THEN [S |-> S, res |-> [ok |-> FALSE, error |-> "Session not found"]]
    ELSE [S |-> [S EXCEPT ![name].currentOffer = offer, ![name].hostId = hostId],
          res |-> [ok |-> TRUE]]

replaceOffer(S, name, hostId, offer) ==
    IF ~Has(S, name)
    THEN [S |-> S, res |-> [ok |-> FALSE, error |-> "Session not found"]]
    ELSE IF S[name].hostId # hostId
    THEN [S |-> S, res |-> [ok |-> FALSE, error |-> "Not the host"]]
    ELSE [S |-> [S EXCEPT ![name].currentOffer = offer], res |-> [ok |-> TRUE]]

\* deleteSession that does not compare the caller's hostId.
deleteSessionAnyHost(S, name, hostId) ==
    IF ~Has(S, name)
    THEN [S |-> S, res |-> FALSE]
    ELSE [S |-> Del(S, name), res |-> TRUE]

deleteSession(S, name, hostId) ==
    IF ~Has(S, name) \/ S[name].hostId # hostId
    THEN [S |-> S, res |-> FALSE]
    ELSE [S |-> Del(S, name), res |-> TRUE]

----------------------------------------------------------------------------
(* Queue directory, src/src/signaling.ts lines 1-143; src/api/_signaling.ts *)
(* holds the same functions, except that its createSession sweeps first.   *)
(* JoinRequest.createdAt is written and never read; it is left out.         *)

createSessionQ(S, t, name, hostId) ==
    IF Has(S, name) /\ ~Stale(S[name], t)
    THEN [S |-> S, res |-> [ok |-> FALSE, error |-> "Session name already taken"]]
    ELSE [S |-> Put(S, name, [name |-> name, hostId |-> hostId,
                              createdAt |-> t, lastHostPoll |-> t,
                              joinRequests |-> <<>>, answers |-> EmptyMap]),
          res |-> [ok |-> TRUE]]

createSessionApi(S, t, name, hostId) == createSessionQ(cleanup(S, t), t, name, hostId)

deleteSessionQ(S, name, hostId) ==
    IF ~Has(S, name) \/ S[name].hostId # hostId
    THEN [S |-> S, res |-> FALSE]
    ELSE [S |-> Del(S, name), res |-> TRUE]

submitJoinRequest(S, sessionName, peerId, offer) ==
    IF ~Has(S, sessionName)
    THEN [S |-> S, res |-> [ok |-> FALSE, error |-> "Session not found"]]
    ELSE [S |-> [S EXCEPT ![sessionName].joinRequests =
                    OrdPut(@, [peerId |-> peerId, offer |-> offer, consumed |-> FALSE])],
          res |-> [ok |-> TRUE]]

\* The requests not yet consumed, in Map order, as {peerId, offer} pairs.
Pending(q) ==
    LET unconsumed == SelectSeq(q, LAMBDA e : ~e.consumed)
    IN  [i \in 1..Len(unconsumed) |->
            [peerId |-> unconsumed[i].peerId, offer |-> unconsumed[i].offer]]

getJoinRequests(S, t, sessionName, hostId) ==
    IF ~Has(S, sessionName)
    THEN [S |-> S, res |-> [ok |-> FALSE, error |-> "Session not found"]]
    ELSE IF S[sessionName].hostId # hostId
    THEN [S |-> S, res |-> [ok |-> FALSE, error |-> "Not the host"]]
    ELSE [S |-> [S EXCEPT ![sessionName].lastHostPoll = t,
                          ![sessionName].joinRequests =
                              [i \in 1..Len(@) |-> [@[i] EXCEPT !.consumed = TRUE]]],
          res |-> [ok |-> TRUE, requests |-> Pending(S[sessionName].joinRequests)]]

submitAnswerQ(S, sessionName, peerId, answer) ==
    IF ~Has(S, sessionName)
    THEN [S |-> S, res |-> [ok |-> FALSE, error |-> "Session not found"]]
    ELSE [S |-> [S EXCEPT ![sessionName].answers = Put(@, peerId, answer)],
          res |-> [ok |-> TRUE]]

getAnswer(S, sessionName, peerId) ==
    IF ~Has(S, sessionName)
    THEN [S |-> S, res |-> [ok |-> FALSE, error |-> "Session not found"]]
    ELSE IF ~Has(S[sessionName].answers, peerId)
    THEN [S |-> S, res |-> [ok |-> FALSE, error |-> "No answer yet"]]
    ELSE [S |-> [S EXCEPT ![sessionName].answers = Del(@, peerId),
                          ![sessionName].joinRequests = OrdDel(@, peerId)],
          res |-> [ok |-> TRUE, answer |-> S[sessionName].answers[peerId]]]

----------------------------------------------------------------------------
(* The directory as a state machine: one action per request *)

\* The kinds of joinSession result.
IsJoiner(res) == res.ok /\ "role" \in DOMAIN res /\ res.role = "joiner"
IsBusy(res) == ~res.ok /\ res.error = "Session busy, try again"

\* `was` is the hostId the directory stored for the name before the call.
StoredHost(S, name) == IF Has(S, name) THEN S[name].hostId ELSE Null
CallRec(op, name, hostId, peerId, res) ==
    [op |-> op, name |-> name, hostId |-> hostId, peerId |-> peerId, res |-> res,
     was |-> IF name = Null THEN Null ELSE StoredHost(sessions, name)]

\* The HTTP routes in front of the directory: handleSignaling and the
\* Bun route for the single-offer directory, the Bun route for the queue
\* directory, the serverless function for src/api/_signaling.ts.
Handlers(v) ==
    CASE v = "slot" -> {"handleSignaling", "serve"}
      [] v = "queue" -> {"serve"}
      [] v = "api" -> {"fetch"}

\* { status: result.ok ? ... : ... } of each case.
StatusOf(op, ok) ==
    IF ok THEN (IF op = "createSession" THEN 201 ELSE 200)
    ELSE (IF op \in {"joinSession", "createSession"} THEN 409 ELSE 404)

\* The response to a well-formed request whose directory call is r.  The
\* body is the JSON value sent: an object with its fields, or a bare boolean.
\* deleteSession returns a boolean, whose .ok is undefined.
Respond(handler, r) ==
    IF r.op # "deleteSession"
    THEN [status |-> StatusOf(r.op, r.res.ok), body |-> [kind |-> "object", fields |-> r.res]]
    ELSE IF handler = "handleSignaling"
    THEN [status |-> 404, body |-> [kind |-> "boolean", value |-> r.res]]
    ELSE [status |-> IF r.res THEN 200 ELSE 404,
          body |-> [kind |-> "object", fields |-> [ok |-> r.res]]]

\* History: every blob of B has been returned by one more call.
Bump(r, B) ==
    [b \in DOMAIN r \cup B |->
        IF b \in B THEN (IF b \in DOMAIN r THEN r[b] ELSE 0) + 1 ELSE r[b]]

\* The offers and the answers a response hands to its caller.
ReturnedOffers(res) ==
    IF "offer" \in DOMAIN res THEN {res.offer}
    ELSE IF "requests" \in DOMAIN res
         THEN {res.requests[i].offer : i \in 1..Len(res.requests)}
    ELSE {}
ReturnedAnswers(res) == IF "answer" \in DOMAIN res THEN {res.answer} ELSE {}

\* History: a successful createSession by hostId replaces the record of the
\* host stored before (if another one) and restores hostId's own authority.
Oust(o, name, hostId, r) ==
    IF ~r.res.ok THEN o
    ELSE (o \ {<<name, hostId>>})
         \cup (IF Has(sessions, name) /\ sessions[name].hostId # hostId
               THEN {<<name, sessions[name].hostId>>} ELSE {})

DirInit ==
    /\ variant \in {"slot", "queue", "api"}
    /\ now = 0
    /\ ticks = 0
    /\ sessions = EmptyMap
    /\ ret = CallRec("init", Null, Null, Null, Null)
    /\ issued = 0
    /\ offerReads = EmptyMap
    /\ answerReads = EmptyMap
    /\ ousted = {}
    /\ polledSince = {}
    /\ drained = {}

Tick ==
    /\ ticks < MaxTicks
    /\ \E d \in TickSteps : now' = now + d
    /\ ticks' = ticks + 1
    /\ ret' = CallRec("tick", Null, Null, Null, Null)
    /\ UNCHANGED <<relayVars, joinVars, saveVars, variant, sessions, issued, offerReads, answerReads, ousted, polledSince, drained>>
    /\ UNCHANGED cliVars

\* setInterval(..., 60_000) of signaling.ts; the timer's phase relative to the
\* requests is arbitrary.  api/_signaling.ts has no timer.
Sweep ==
    /\ variant \in {"slot", "queue"}
    /\ sessions' = cleanup(sessions, now)
    /\ ret' = CallRec("sweep", Null, Null, Null, Null)
    /\ UNCHANGED <<relayVars, joinVars, saveVars, variant, now, ticks, issued, offerReads, answerReads, ousted, polledSince, drained>>
    /\ UNCHANGED cliVars

JoinSession ==
    /\ variant = "slot"
    /\ \E name \in Names :
        LET r == joinSession(sessions, now, name) IN
        /\ sessions' = r.S
        /\ ret' = CallRec("joinSession", name, Null, Null, r.res)
        /\ offerReads' = Bump(offerReads, ReturnedOffers(r.res))
    /\ UNCHANGED <<relayVars, joinVars, saveVars, variant, now, ticks, issued, answerReads, ousted, polledSince, drained>>
    /\ UNCHANGED cliVars

CreateSession ==
    /\ variant = "slot"
    /\ issued < MaxBlobs
    /\ \E name \in Names, hostId \in HostIds :
        LET r == createSession(sessions, now, name, hostId, Blob(issued + 1)) IN
        /\ sessions' = r.S
        /\ ret' = CallRec("createSession", name, hostId, Null, r.res)
        /\ ousted' = Oust(ousted, name, hostId, r)
    /\ issued' = issued + 1
    /\ UNCHANGED <<relayVars, joinVars, saveVars, variant, now, ticks, offerReads, answerReads, polledSince, drained>>
    /\ UNCHANGED cliVars

SubmitAnswer ==
    /\ variant = "slot"
    /\ issued < MaxBlobs
    /\ \E name \in Names, peerId \in PeerIds :
        LET r == submitAnswer(sessions, name, peerId, Blob(issued + 1)) IN
        /\ sessions' = r.S
        /\ ret' = CallRec("submitAnswer", name, Null, peerId, r.res)
        /\ drained' = IF r.res.ok THEN drained \ {<<name, Null>>} ELSE drained
    /\ issued' = issued + 1
    /\ UNCHANGED <<relayVars, joinVars, saveVars, variant, now, ticks, offerReads, answerReads, ousted, polledSince>>
    /\ UNCHANGED cliVars

PollAnswer ==
    /\ variant = "slot"
    /\ \E name \in Names, hostId \in HostIds :
        LET r == pollAnswer(sessions, now, name, hostId) IN
        /\ sessions' = r.S
        /\ ret' = CallRec("pollAnswer", name, hostId, Null, r.res)
        /\ answerReads' = Bump(answerReads, ReturnedAnswers(r.res))
        /\ drained' = IF ReturnedAnswers(r.res) # {} THEN drained \cup {<<name, Null>>}
                      ELSE drained
    /\ UNCHANGED <<relayVars, joinVars, saveVars, variant, now, ticks, issued, offerReads, ousted, polledSince>>
    /\ UNCHANGED cliVars

ReplaceOffer ==
    /\ variant = "slot"
    /\ issued < MaxBlobs
    /\ \E name \in Names, hostId \in HostIds :
        LET r == replaceOffer(sessions, name, hostId, Blob(issued + 1)) IN
        /\ sessions' = r.S
        /\ ret' = CallRec("replaceOffer", name, hostId, Null, r.res)
    /\ issued' = issued + 1
    /\ UNCHANGED <<relayVars, joinVars, saveVars, variant, now, ticks, offerReads, answerReads, ousted, polledSince, drained>>
    /\ UNCHANGED cliVars

DeleteSession ==
    /\ variant = "slot"
    /\ \E name \in Names, hostId \in HostIds :
        LET r == deleteSession(sessions, name, hostId) IN
        /\ sessions' = r.S
        /\ ret' = CallRec("deleteSession", name, hostId, Null, r.res)
    /\ UNCHANGED <<relayVars, joinVars, saveVars, variant, now, ticks, issued, offerReads, answerReads, ousted, polledSince, drained>>
    /\ UNCHANGED cliVars

CreateSessionQ ==
    /\ variant \in {"queue", "api"}
    /\ \E name \in Names, hostId \in HostIds :
        LET r == IF variant = "api"
                 THEN createSessionApi(sessions, now, name, hostId)
                 ELSE createSessionQ(sessions, now, name, hostId) IN
        /\ sessions' = r.S
        /\ ret' = CallRec("createSession", name, hostId, Null, r.res)
        /\ ousted' = Oust(ousted, name, hostId, r)
    /\ UNCHANGED <<relayVars, joinVars, saveVars, variant, now, ticks, issued, offerReads, answerReads, polledSince, drained>>
    /\ UNCHANGED cliVars

DeleteSessionQ ==
    /\ variant \in {"queue", "api"}
    /\ \E name \in Names, hostId \in HostIds :
        LET r == deleteSessionQ(sessions, name, hostId) IN
        /\ sessions' = r.S
        /\ ret' = CallRec("deleteSession", name, hostId, Null, r.res)
    /\ UNCHANGED <<relayVars, joinVars, saveVars, variant, now, ticks, issued, offerReads, answerReads, ousted, polledSince, drained>>
    /\ UNCHANGED cliVars

SubmitJoinRequest ==
    /\ variant \in {"queue", "api"}
    /\ issued < MaxBlobs
    /\ \E name \in Names, peerId \in PeerIds :
        LET r == submitJoinRequest(sessions, name, peerId, Blob(issued + 1)) IN
        /\ sessions' = r.S
        /\ ret' = CallRec("submitJoinRequest", name, Null, peerId, r.res)
        /\ polledSince' = IF r.res.ok THEN polledSince \ {name} ELSE polledSince
    /\ issued' = issued + 1
    /\ UNCHANGED <<relayVars, joinVars, saveVars, variant, now, ticks, offerReads, answerReads, ousted, drained>>
    /\ UNCHANGED cliVars

GetJoinRequests ==
    /\ variant \in {"queue", "api"}
    /\ \E name \in Names, hostId \in HostIds :
        LET r == getJoinRequests(sessions, now, name, hostId) IN
        /\ sessions' = r.S
        /\ ret' = CallRec("getJoinRequests", name, hostId, Null, r.res)
        /\ offerReads' = Bump(offerReads, ReturnedOffers(r.res))
        /\ polledSince' = IF r.res.ok THEN polledSince \cup {name} ELSE polledSince
    /\ UNCHANGED <<relayVars, joinVars, saveVars, variant, now, ticks, issued, answerReads, ousted, drained>>
    /\ UNCHANGED cliVars

SubmitAnswerQ ==
    /\ variant \in {"queue", "api"}
    /\ issued < MaxBlobs
    /\ \E name \in Names, peerId \in PeerIds :
        LET r == submitAnswerQ(sessions, name, peerId, Blob(issued + 1)) IN
        /\ sessions' = r.S
        /\ ret' = CallRec("submitAnswer", name, Null, peerId, r.res)
        /\ drained' = IF r.res.ok THEN drained \ {<<name, peerId>>} ELSE drained
    /\ issued' = issued + 1
    /\ UNCHANGED <<relayVars, joinVars, saveVars, variant, now, ticks, offerReads, answerReads, ousted, polledSince>>
    /\ UNCHANGED cliVars

GetAnswer ==
    /\ variant \in {"queue", "api"}
    /\ \E name \in Names, peerId \in PeerIds :
        LET r == getAnswer(sessions, name, peerId) IN
        /\ sessions' = r.S
        /\ ret' = CallRec("getAnswer", name, Null, peerId, r.res)
        /\ answerReads' = Bump(answerReads, ReturnedAnswers(r.res))
        /\ drained' = IF ReturnedAnswers(r.res) # {} THEN drained \cup {<<name, peerId>>}
                      ELSE drained
    /\ UNCHANGED <<relayVars, joinVars, saveVars, variant, now, ticks, issued, offerReads, ousted, polledSince>>
    /\ UNCHANGED cliVars

DirNext ==
    \/ Tick
    \/ Sweep
    \/ JoinSession
    \/ CreateSession
    \/ SubmitAnswer
    \/ PollAnswer
    \/ ReplaceOffer
    \/ DeleteSession
    \/ CreateSessionQ
    \/ DeleteSessionQ
    \/ SubmitJoinRequest
    \/ GetJoinRequests
    \/ SubmitAnswerQ
    \/ GetAnswer

----------------------------------------------------------------------------
(* The connection orchestrator of one client (src/src/store.tsx, the RxJS    *)
(* revision, lines 747-1573) talking to the single-offer directory.          *)
(*                                                                           *)
(* JavaScript runs one callback at a time: each action below is one callback *)
(* from the event loop (a user call, a promise continuation together with    *)
(* the microtasks it triggers, a timer, a connection event) or the           *)
(* directory serving one request.  An async function keeps running after the *)
(* subscription that started it is closed; only what it hands back to the    *)
(* RxJS pipeline (from(promise), defer) is dropped then.                     *)

MaxAttempts == 2
MaxConns == 2
MaxRemote == 2
MaxElapse == 1

\* timer(1000) of the poll stream.
POLL_MS == 1000

\* The remote participants' identities.
RemoteHost == "h1"
RemotePeer == "p1"

\* A string that decode() of webrtc.ts rejects.
BadAnswer == "bad"

\* The age at which the peer sweep drops a disconnected entry.
SWEEP_AGE_MS == 30000

\* crypto.randomUUID(): the n-th identifier drawn by the client.
Uid(n) == "u" \o ToString(n)
\* The handshake blobs of the client's h-th connection, and the answer a
\* remote joiner derives from an offer.
OfferOf(h) == "offer" \o ToString(h)
AnswerOf(h) == "answer" \o ToString(h)
AnswerTo(o) == "re:" \o o

NoRes == [none |-> TRUE]

\* A request in flight (k ends in Req), a response not yet delivered (Resp),
\* an awaited WebRTC promise, a timer, or the joiner's disconnect observer.
\*   conn, peerId : the connection being set up; for the host's poll loop the
\*                  closure variables currentPc / currentPeerId
\*   cur          : currentPc of the poll loop while the next offer is made
\*   from         : the caller of createAndPostOffer
Task(k, att, name, hostId, peerId, conn, cur, blob, res, from) ==
    [k |-> k, att |-> att, name |-> name, hostId |-> hostId, peerId |-> peerId,
     conn |-> conn, cur |-> cur, blob |-> blob, res |-> res, from |-> from]

\* What unsubscribing tears down: timers and the joiner's disconnect observer.
Subscribed == {"pollWait", "retryWait", "joined"}

\* PeerEntry; pc = 0 is the `null!` placeholder, dc = 0 is null.
Entry(peerId, pc) ==
    [peerId |-> peerId, pc |-> pc, dc |-> 0, status |-> "connecting", disconnectedAt |-> -1]

\* An RTCPeerConnection: whether close() was called on it, which attempt made
\* it, the registry key its callbacks use, whether createOffer resolved on it
\* (made), whether it holds both descriptions (ice), whether the remote side completed the handshake (ready), its data
\* channel ("new", "up", then "down"), whether its connectionState became
\* disconnected / failed, and the remote participant that took its offer.
Conn(side, att, key) ==
    [closed |-> FALSE, side |-> side, att |-> att, key |-> key, made |-> FALSE,
     ice |-> FALSE, ready |-> FALSE, link |-> "new", failed |-> FALSE, taker |-> Null]

\* Map operations on the registry, which iterates in insertion order.
PeerIdx(P, k) ==
    IF \E i \in 1..Len(P) : P[i].peerId = k
    THEN CHOOSE i \in 1..Len(P) : P[i].peerId = k
    ELSE 0
PeerSet(P, e) ==
    IF PeerIdx(P, e.peerId) = 0 THEN Append(P, e) ELSE [P EXCEPT ![PeerIdx(P, e.peerId)] = e]
PeerDel(P, k) == SelectSeq(P, LAMBDA e : e.peerId # k)

\* pc.close() on each of the handles H.
close(C, H) == [h \in DOMAIN C |-> IF h \in H THEN [C[h] EXCEPT !.closed = TRUE] ELSE C[h]]

\* The client's state as one record, so that a callback's statements compose.
Cli ==
    [sessionState |-> sessionState, errorMessage |-> errorMessage,
     peersShown |-> peersShown, sessionNameRef |-> sessionNameRef,
     isHostRef |-> isHostRef, hostIdRef |-> hostIdRef, peersRef |-> peersRef,
     subRef |-> subRef, subOpen |-> subOpen, uuids |-> uuids, conns |-> conns,
     tasks |-> tasks]

Commit(c) ==
    /\ sessionState' = c.sessionState
    /\ errorMessage' = c.errorMessage
    /\ peersShown' = c.peersShown
    /\ sessionNameRef' = c.sessionNameRef
    /\ isHostRef' = c.isHostRef
    /\ hostIdRef' = c.hostIdRef
    /\ peersRef' = c.peersRef
    /\ subRef' = c.subRef
    /\ subOpen' = c.subOpen
    /\ uuids' = c.uuids
    /\ conns' = c.conns
    /\ tasks' = c.tasks

Live(att) == subOpen /\ subRef = att

updatePeersState(c) ==
    [c EXCEPT !.peersShown =
        [i \in 1..Len(c.peersRef) |->
            [peerId |-> c.peersRef[i].peerId, status |-> c.peersRef[i].status]]]

\* markDisconnected without the test of the entry's status.
markDisconnectedAgain(c, peerId, t) ==
    LET i == PeerIdx(c.peersRef, peerId) IN
    IF i # 0
    THEN updatePeersState([c EXCEPT !.conns = close(@, {c.peersRef[i].pc}),
                                    !.peersRef[i].status = "disconnected",
                                    !.peersRef[i].disconnectedAt = t])
    ELSE c

markDisconnected(c, peerId, t) ==
    LET i == PeerIdx(c.peersRef, peerId) IN
    IF i # 0 /\ c.peersRef[i].status # "disconnected"
    THEN updatePeersState([c EXCEPT !.conns = close(@, {c.peersRef[i].pc}),
                                    !.peersRef[i].status = "disconnected",
                                    !.peersRef[i].disconnectedAt = t])
    ELSE c

\* `for (const peer of peersRef.current.values()) peer.pc.close();
\*  peersRef.current.clear();`  Reading .close of a null pc throws a TypeError:
\* the entries before it are closed, the rest and clear() are skipped.
FirstNull(P) ==
    IF \E i \in 1..Len(P) : P[i].pc = 0
    THEN CHOOSE i \in 1..Len(P) : P[i].pc = 0 /\ \A j \in 1..(i - 1) : P[j].pc # 0
    ELSE 0
closeAllPeers(c) ==
    LET n == FirstNull(c.peersRef)
        upto == IF n = 0 THEN Len(c.peersRef) ELSE n - 1
        c1 == [c EXCEPT !.conns = close(@, {c.peersRef[i].pc : i \in 1..upto})]
    IN  IF n = 0 THEN [c |-> [c1 EXCEPT !.peersRef = <<>>], threw |-> FALSE]
        ELSE [c |-> c1, threw |-> TRUE]

\* Subscription.unsubscribe() of the session stream made by call number att:
\* a no-op on a closed subscription; otherwise the subscription is closed,
\* its timers are cancelled, the joiner's disconnect observer runs its
\* teardown, the finalize callback runs last, and an error thrown by it is
\* rethrown to the caller of unsubscribe().
unsubscribe(c, att) ==
    IF ~(c.subOpen /\ c.subRef = att) THEN [c |-> c, threw |-> FALSE]
    ELSE LET joined == {t \in c.tasks : t.att = att /\ t.k = "joined"}
             c1 == [c EXCEPT !.subOpen = FALSE,
                             !.tasks = {t \in @ : t.att # att \/ t.k \notin Subscribed}]
             c2 == IF joined = {} THEN c1
                   ELSE updatePeersState(
                          [c1 EXCEPT !.conns = close(@, {t.conn : t \in joined}),
                                     !.peersRef = PeerDel(@, "host")])
         IN  closeAllPeers(c2)

\* subscribe({error}): the stream's error reaches the subscriber, which then
\* closes; the finalize callback runs and what it throws is not caught here.
streamError(c, att, msg) ==
    unsubscribe([c EXCEPT !.sessionState = "error", !.errorMessage = msg], att).c

\* The delay callback of retry({delay}); an error it throws fails the stream.
retry(c, att, name) ==
    LET r == closeAllPeers(c) IN
    IF r.threw THEN streamError(r.c, att, "TypeError")
    ELSE [updatePeersState(r.c) EXCEPT
             !.sessionState = "connecting", !.isHostRef = FALSE, !.hostIdRef = Null,
             !.tasks = @ \cup {Task("retryWait", att, name, Null, Null, 0, 0, Null, NoRes, Null)}]

\* createAndPostOffer up to `await createOffer(...)`: the entry is registered
\* with a null pc, and createOffer constructs the connection at once.
startOffer(c, att, name, hostId, from, cur) ==
    LET peerId == Uid(c.uuids + 1)
        h == Len(c.conns) + 1
        c1 == updatePeersState([c EXCEPT !.peersRef = PeerSet(@, Entry(peerId, 0))])
    IN  [c1 EXCEPT !.uuids = @ + 1,
                   !.conns = Append(@, Conn("host", att, peerId)),
                   !.tasks = @ \cup {Task("createOffer", att, name, hostId, peerId, h, cur,
                                          Null, NoRes, from)}]

\* The caller's continuation when createAndPostOffer returned {pc, dc, peerId}:
\* becomeHost sets hosting and returns the poll stream, handshake moves
\* currentPeerId / currentPc; the pipeline polls next only if still subscribed.
afterOffer(c, t, live) ==
    LET c1 == IF t.from = "becomeHost" THEN [c EXCEPT !.sessionState = "hosting"] ELSE c
    IN  IF live
        THEN [c1 EXCEPT !.tasks = @ \cup {Task("pollReq", t.att, t.name, t.hostId, t.peerId,
                                               t.conn, 0, Null, NoRes, Null)}]
        ELSE c1

\* The caller's continuation when createAndPostOffer returned null: becomeHost
\* throws (the stream retries), handshake keeps its current connection.
afterNoOffer(c, t, live) ==
    IF ~live THEN c
    ELSE IF t.from = "becomeHost" THEN retry(c, t.att, t.name)
    ELSE [c EXCEPT !.tasks = @ \cup {Task("pollReq", t.att, t.name, t.hostId,
                                          c.conns[t.cur].key, t.cur, 0, Null, NoRes, Null)}]

\* becomeJoiner up to `await acceptOffer(...)`, which constructs the connection.
startAccept(c, att, name, offer) ==
    [c EXCEPT !.uuids = @ + 1,
              !.conns = Append(@, Conn("joiner", att, "host")),
              !.tasks = @ \cup {Task("acceptOffer", att, name, Null, Uid(c.uuids + 1),
                                     Len(c.conns) + 1, 0, offer, NoRes, Null)}]

\* The close listeners of a connection's data channel.  A host-side connection
\* marks its peer; the joiner's marks "host", sets connecting and, while the
\* disconnect observer is subscribed, fails the stream into retry, whose
\* teardown closes the connection and removes "host".
onConnDown(c, h, t) ==
    IF c.conns[h].side = "host" THEN markDisconnected(c, c.conns[h].key, t)
    ELSE LET c1 == [markDisconnected(c, "host", t) EXCEPT !.sessionState = "connecting"]
             obs == {x \in c1.tasks : x.k = "joined" /\ x.conn = h}
         IN  IF obs = {} THEN c1
             ELSE LET x == CHOOSE x \in obs : TRUE
                      c2 == retry([c1 EXCEPT !.tasks = @ \ obs], x.att, x.name)
                  IN  updatePeersState([c2 EXCEPT !.conns = close(@, {h}),
                                                  !.peersRef = PeerDel(@, "host")])

\* The connectionstatechange listeners of a connection, in the order they
\* were added: pcDisconnect$ (lines 1137, 1310-1313) first, then checkDisconnect
\* of the joiner's disconnect observer (lines 1333-1342), which reads
\* connectionState after markDisconnected may have closed the connection.
onPcDown(c, h, t) ==
    IF c.conns[h].side = "host" THEN markDisconnected(c, c.conns[h].key, t)
    ELSE LET c1 == [markDisconnected(c, "host", t) EXCEPT !.sessionState = "connecting"]
             obs == {x \in c1.tasks : x.k = "joined" /\ x.conn = h}
         IN  IF obs = {} \/ c1.conns[h].closed THEN c1
             ELSE LET x == CHOOSE x \in obs : TRUE
                      c2 == retry([c1 EXCEPT !.tasks = @ \ obs], x.att, x.name)
                  IN  updatePeersState([c2 EXCEPT !.conns = close(@, {h}),
                                                  !.peersRef = PeerDel(@, "host")])

\* onOpen of a connection's data channel.
onOpen(c, h) ==
    LET key == c.conns[h].key
        i == PeerIdx(c.peersRef, key)
        c1 == IF i = 0 THEN c
              ELSE IF c.conns[h].side = "host"
              THEN [c EXCEPT !.peersRef[i].status = "connected"]
              ELSE [c EXCEPT !.peersRef[i].status = "connected", !.peersRef[i].dc = h]
    IN  IF c.conns[h].side = "host" THEN updatePeersState(c1)
        ELSE updatePeersState([c1 EXCEPT !.sessionState = "connected"])

\* History: the kind of step taken last; for a callback, whether the attempt it
\* belongs to was no longer subscribed; for a user call, whether it threw.
Step(op, stale, threw) == [op |-> op, stale |-> stale, threw |-> threw]

CliInit ==
    /\ sessionState = "idle"
    /\ errorMessage = Null
    /\ peersShown = <<>>
    /\ sessionNameRef = Null
    /\ isHostRef = FALSE
    /\ hostIdRef = Null
    /\ peersRef = <<>>
    /\ subRef = 0
    /\ subOpen = FALSE
    /\ attempts = 0
    /\ uuids = 0
    /\ conns = <<>>
    /\ tasks = {}
    /\ held = Null
    /\ remoteCalls = 0
    /\ superseded = 0
    /\ last = Step("init", FALSE, FALSE)

\* Frames: a client callback leaves the directory alone; a served request
\* changes only the stored sessions.
dirFrame == UNCHANGED <<dirVars, relayVars, joinVars, saveVars>>
serveFrame ==
    UNCHANGED <<relayVars, joinVars, saveVars, variant, now, ticks, ret, issued, offerReads, answerReads, ousted,
                polledSince, drained>>
envFrame == UNCHANGED <<attempts, held, remoteCalls, superseded>>

ConnectToSession ==
    /\ attempts < MaxAttempts
    /\ \E name \in Names :
        LET u == unsubscribe(Cli, subRef)
            p == closeAllPeers(u.c)
            c == [p.c EXCEPT !.sessionState = "connecting", !.errorMessage = Null,
                             !.sessionNameRef = name, !.isHostRef = FALSE,
                             !.hostIdRef = Null, !.subRef = attempts + 1, !.subOpen = TRUE,
                             !.tasks = @ \cup {Task("joinReq", attempts + 1, name, Null, Null,
                                                    0, 0, Null, NoRes, Null)}]
        IN  /\ Commit(IF u.threw THEN u.c ELSE IF p.threw THEN p.c ELSE c)
            /\ last' = Step("connectToSession", FALSE, u.threw \/ p.threw)
    /\ attempts' = attempts + 1
    /\ superseded' = attempts
    /\ UNCHANGED <<held, remoteCalls>>
    /\ dirFrame

LeaveSession ==
    /\ LET u == unsubscribe(Cli, subRef)
           del == IF isHostRef /\ sessionNameRef # Null /\ hostIdRef # Null
                  THEN {Task("deleteReq", subRef, sessionNameRef, hostIdRef, Null, 0, 0,
                             Null, NoRes, Null)}
                  ELSE {}
           c == [u.c EXCEPT !.subRef = 0, !.hostIdRef = Null, !.sessionNameRef = Null,
                            !.isHostRef = FALSE, !.sessionState = "idle",
                            !.peersShown = <<>>, !.errorMessage = Null,
                            !.tasks = @ \cup del]
       IN  /\ Commit(IF u.threw THEN u.c ELSE c)
           /\ last' = Step("leaveSession", FALSE, u.threw)
    /\ superseded' = attempts
    /\ UNCHANGED <<attempts, held, remoteCalls>>
    /\ dirFrame

\* The directory serves the request of task t and the response travels back.
Served(t, k, res) == (tasks \ {t}) \cup {[t EXCEPT !.k = k, !.res = res]}

ServeJoinSession ==
    /\ \E t \in tasks :
        /\ t.k = "joinReq"
        /\ LET r == joinSession(sessions, now, t.name) IN
           /\ sessions' = r.S
           /\ tasks' = Served(t, "joinResp", r.res)
           /\ last' = Step("request", FALSE, FALSE)
    /\ UNCHANGED <<sessionState, errorMessage, peersShown, sessionNameRef, isHostRef,
                   hostIdRef, peersRef, subRef, subOpen, uuids, conns>>
    /\ envFrame
    /\ serveFrame

\* switchMap((data) => ...) on the join-session response.
OnJoinSession ==
    /\ \E t \in tasks :
        /\ t.k = "joinResp"
        /\ Live(t.att) /\ t.res.ok => Len(conns) < MaxConns
        /\ LET c == [Cli EXCEPT !.tasks = @ \ {t}] IN
           Commit(IF ~Live(t.att) THEN c
                  ELSE IF ~t.res.ok THEN retry(c, t.att, t.name)
                  ELSE IF t.res.role = "host"
                  THEN startOffer([c EXCEPT !.isHostRef = TRUE, !.uuids = @ + 1],
                                  t.att, t.name, Uid(c.uuids + 1), "becomeHost", 0)
                  ELSE startAccept(c, t.att, t.name, t.res.offer))
        /\ last' = Step("callback", t.att <= superseded, FALSE)
    /\ envFrame
    /\ dirFrame

\* createOffer resolved: lines 1124-1165 up to the fetch.
OfferCreated ==
    /\ \E t \in tasks :
        /\ t.k = "createOffer"
        /\ LET i == PeerIdx(peersRef, t.peerId)
               c == [Cli EXCEPT !.tasks = @ \ {t}]
               c0 == [c EXCEPT !.conns[t.conn].made = TRUE]
               c1 == IF i = 0 THEN c0
                     ELSE [c0 EXCEPT !.peersRef[i].pc = t.conn, !.peersRef[i].dc = t.conn]
               isFirst == hostIdRef = Null
           IN  Commit([c1 EXCEPT
                         !.hostIdRef = IF isFirst THEN t.hostId ELSE @,
                         !.tasks = @ \cup {[t EXCEPT !.k = IF isFirst THEN "createReq"
                                                           ELSE "replaceReq",
                                                    !.blob = OfferOf(t.conn)]}])
        /\ last' = Step("callback", t.att <= superseded, FALSE)
    /\ envFrame
    /\ dirFrame

\* createOffer rejected: the catch block of lines 1127-1131.
OfferFailed ==
    /\ \E t \in tasks :
        /\ t.k = "createOffer"
        /\ LET c == updatePeersState([Cli EXCEPT !.tasks = @ \ {t},
                                                 !.peersRef = PeerDel(@, t.peerId)])
           IN  Commit(afterNoOffer(c, t, Live(t.att)))
        /\ last' = Step("callback", t.att <= superseded, FALSE)
    /\ envFrame
    /\ dirFrame

ServeCreateSession ==
    /\ \E t \in tasks :
        /\ t.k = "createReq"
        /\ LET r == createSession(sessions, now, t.name, t.hostId, t.blob) IN
           /\ sessions' = r.S
           /\ tasks' = Served(t, "createResp", r.res)
           /\ last' = Step("request", FALSE, FALSE)
    /\ UNCHANGED <<sessionState, errorMessage, peersShown, sessionNameRef, isHostRef,
                   hostIdRef, peersRef, subRef, subOpen, uuids, conns>>
    /\ envFrame
    /\ serveFrame

\* The create-session response: lines 1148-1154 and 1167, then the caller.
OnCreateSession ==
    /\ \E t \in tasks :
        /\ t.k = "createResp"
        /\ LET c == [Cli EXCEPT !.tasks = @ \ {t}] IN
           Commit(IF t.res.ok THEN afterOffer(c, t, Live(t.att))
                  ELSE afterNoOffer(
                         updatePeersState([c EXCEPT !.conns = close(@, {t.conn}),
                                                    !.peersRef = PeerDel(@, t.peerId)]),
                         t, Live(t.att)))
        /\ last' = Step("callback", t.att <= superseded, FALSE)
    /\ envFrame
    /\ dirFrame

ServeReplaceOffer ==
    /\ \E t \in tasks :
        /\ t.k = "replaceReq"
        /\ LET r == replaceOffer(sessions, t.name, t.hostId, t.blob) IN
           /\ sessions' = r.S
           /\ tasks' = Served(t, "replaceResp", r.res)
           /\ last' = Step("request", FALSE, FALSE)
    /\ UNCHANGED <<sessionState, errorMessage, peersShown, sessionNameRef, isHostRef,
                   hostIdRef, peersRef, subRef, subOpen, uuids, conns>>
    /\ envFrame
    /\ serveFrame

\* The replace-offer response: a failure is only logged (lines 1161-1167).
OnReplaceOffer ==
    /\ \E t \in tasks :
        /\ t.k = "replaceResp"
        /\ Commit(afterOffer([Cli EXCEPT !.tasks = @ \ {t}], t, Live(t.att)))
        /\ last' = Step("callback", t.att <= superseded, FALSE)
    /\ envFrame
    /\ dirFrame

ServePollAnswer ==
    /\ \E t \in tasks :
        /\ t.k = "pollReq"
        /\ LET r == pollAnswer(sessions, now, t.name, t.hostId) IN
           /\ sessions' = r.S
           /\ tasks' = Served(t, "pollResp", r.res)
           /\ last' = Step("request", FALSE, FALSE)
    /\ UNCHANGED <<sessionState, errorMessage, peersShown, sessionNameRef, isHostRef,
                   hostIdRef, peersRef, subRef, subOpen, uuids, conns>>
    /\ envFrame
    /\ serveFrame

\* switchMap((d) => ...) of the poll stream: with an answer, handshake() runs
\* up to its first await; otherwise the 1 s timer starts.
OnPollAnswer ==
    /\ \E t \in tasks :
        /\ t.k = "pollResp"
        /\ LET c == [Cli EXCEPT !.tasks = @ \ {t}]
               i == PeerIdx(peersRef, t.peerId)
               answered == t.res.ok /\ "answer" \in DOMAIN t.res
               current == i # 0 /\ peersRef[i].pc = t.conn
           IN  /\ Live(t.att) /\ answered /\ ~current => Len(conns) < MaxConns
               /\ Commit(IF ~Live(t.att) THEN c
                         ELSE IF answered /\ current
                         THEN [c EXCEPT !.tasks = @ \cup
                                 {[t EXCEPT !.k = "acceptAnswer", !.blob = t.res.answer,
                                            !.res = NoRes]}]
                         ELSE IF answered
                         THEN startOffer(c, t.att, t.name, t.hostId, "handshake", t.conn)
                         ELSE [c EXCEPT !.tasks = @ \cup
                                 {[t EXCEPT !.k = "pollWait", !.res = NoRes]}])
        /\ last' = Step("callback", t.att <= superseded, FALSE)
    /\ envFrame
    /\ dirFrame

\* The poll request fails (a network error, a lost response): catchError of
\* line 1210 starts the 1 s timer.
PollLost ==
    /\ \E t \in tasks :
        /\ t.k = "pollResp"
        /\ tasks' = (tasks \ {t}) \cup
                    (IF Live(t.att) THEN {[t EXCEPT !.k = "pollWait", !.res = NoRes]} ELSE {})
        /\ last' = Step("callback", t.att <= superseded, FALSE)
    /\ UNCHANGED <<sessionState, errorMessage, peersShown, sessionNameRef, isHostRef,
                   hostIdRef, peersRef, subRef, subOpen, uuids, conns>>
    /\ envFrame
    /\ dirFrame

\* timer(1000) fired: repeat() subscribes to the poll again.
PollTimer ==
    /\ \E t \in tasks :
        /\ t.k = "pollWait"
        /\ tasks' = (tasks \ {t}) \cup {[t EXCEPT !.k = "pollReq"]}
        /\ last' = Step("callback", t.att <= superseded, FALSE)
    /\ UNCHANGED <<sessionState, errorMessage, peersShown, sessionNameRef, isHostRef,
                   hostIdRef, peersRef, subRef, subOpen, uuids, conns>>
    /\ envFrame
    /\ dirFrame

\* acceptAnswer rejects an answer that does not decode, and setRemoteDescription
\* rejects on a closed connection and on one that already holds an answer.
Rejects(conn, answer) == conn.closed \/ conn.ice \/ answer = BadAnswer

\* acceptAnswer(currentPc, d.answer) settled.  It rejects on a closed
\* connection (handshake fails into catchError: the 1 s timer); otherwise
\* handshake goes on into createAndPostOffer, subscribed or not.  The
\* connection can open only if the answer was made from its own offer.
AnswerAccepted ==
    /\ \E t \in tasks :
        /\ t.k = "acceptAnswer"
        /\ ~Rejects(conns[t.conn], t.blob) => Len(conns) < MaxConns
        /\ LET c == [Cli EXCEPT !.tasks = @ \ {t}] IN
           Commit(IF Rejects(conns[t.conn], t.blob)
                  THEN IF Live(t.att)
                       THEN [c EXCEPT !.tasks = @ \cup
                               {[t EXCEPT !.k = "pollWait", !.blob = Null]}]
                       ELSE c
                  ELSE startOffer(
                         [c EXCEPT !.conns[t.conn].ice = TRUE,
                                   !.conns[t.conn].ready =
                                      t.blob = AnswerTo(OfferOf(t.conn))],
                         t.att, t.name, t.hostId, "handshake", t.conn))
        /\ last' = Step("callback", t.att <= superseded, FALSE)
    /\ envFrame
    /\ dirFrame

\* acceptOffer resolved: becomeJoiner, lines 1300-1329 up to the fetch.
OfferAccepted ==
    /\ \E t \in tasks :
        /\ t.k = "acceptOffer"
        /\ Commit(updatePeersState(
                    [Cli EXCEPT !.peersRef = PeerSet(@, Entry("host", t.conn)),
                                !.conns[t.conn].ice = TRUE,
                                !.tasks = (@ \ {t}) \cup
                                   {[t EXCEPT !.k = "submitReq", !.blob = AnswerOf(t.conn)]}]))
        /\ last' = Step("callback", t.att <= superseded, FALSE)
    /\ envFrame
    /\ dirFrame

ServeSubmitAnswer ==
    /\ \E t \in tasks :
        /\ t.k = "submitReq"
        /\ LET r == submitAnswer(sessions, t.name, t.peerId, t.blob) IN
           /\ sessions' = r.S
           /\ tasks' = Served(t, "submitResp", r.res)
           /\ last' = Step("request", FALSE, FALSE)
    /\ UNCHANGED <<sessionState, errorMessage, peersShown, sessionNameRef, isHostRef,
                   hostIdRef, peersRef, subRef, subOpen, uuids, conns>>
    /\ envFrame
    /\ serveFrame

\* The submit-answer response (its body is not read): becomeJoiner returns the
\* disconnect observer, which the pipeline subscribes to if still subscribed.
OnSubmitAnswer ==
    /\ \E t \in tasks :
        /\ t.k = "submitResp"
        /\ tasks' = (tasks \ {t}) \cup
                    (IF Live(t.att) THEN {[t EXCEPT !.k = "joined", !.res = NoRes]} ELSE {})
        /\ last' = Step("callback", t.att <= superseded, FALSE)
    /\ UNCHANGED <<sessionState, errorMessage, peersShown, sessionNameRef, isHostRef,
                   hostIdRef, peersRef, subRef, subOpen, uuids, conns>>
    /\ envFrame
    /\ dirFrame

\* timer(3000) of retry fired: the stream is subscribed to again.
RetryTimer ==
    /\ \E t \in tasks :
        /\ t.k = "retryWait"
        /\ tasks' = (tasks \ {t}) \cup {[t EXCEPT !.k = "joinReq"]}
        /\ last' = Step("callback", t.att <= superseded, FALSE)
    /\ UNCHANGED <<sessionState, errorMessage, peersShown, sessionNameRef, isHostRef,
                   hostIdRef, peersRef, subRef, subOpen, uuids, conns>>
    /\ envFrame
    /\ dirFrame

\* The delete-session request of leaveSession; nobody reads the response.
ServeDeleteSession ==
    /\ \E t \in tasks :
        /\ t.k = "deleteReq"
        /\ sessions' = deleteSession(sessions, t.name, t.hostId).S
        /\ tasks' = tasks \ {t}
        /\ last' = Step("request", FALSE, FALSE)
    /\ UNCHANGED <<sessionState, errorMessage, peersShown, sessionNameRef, isHostRef,
                   hostIdRef, peersRef, subRef, subOpen, uuids, conns>>
    /\ envFrame
    /\ serveFrame

\* The data channel of an open connection opens once both sides hold each
\* other's description.
DcOpen ==
    /\ \E h \in DOMAIN conns :
        /\ ~conns[h].closed /\ ~conns[h].failed /\ conns[h].ready /\ conns[h].link = "new"
        /\ Commit(onOpen([Cli EXCEPT !.conns[h].link = "up"], h))
        /\ last' = Step("callback", conns[h].att <= superseded, FALSE)
    /\ envFrame
    /\ dirFrame

\* The data channel of an open connection is closed from the remote side.
ConnDown ==
    /\ \E h \in DOMAIN conns :
        /\ ~conns[h].closed /\ conns[h].link = "up"
        /\ Commit(onConnDown([Cli EXCEPT !.conns[h].link = "down"], h, now))
        /\ last' = Step("callback", conns[h].att <= superseded, FALSE)
    /\ envFrame
    /\ dirFrame

\* The connectionState of a connection that holds both descriptions becomes
\* disconnected or failed.
PcDown ==
    /\ \E h \in DOMAIN conns :
        /\ ~conns[h].closed /\ conns[h].ice /\ ~conns[h].failed
        /\ Commit(onPcDown([Cli EXCEPT !.conns[h].failed = TRUE], h, now))
        /\ last' = Step("callback", conns[h].att <= superseded, FALSE)
    /\ envFrame
    /\ dirFrame

\* Whether the data channel of a connection closed by pc.close() still fires
\* its close event depends on the browser: it may.
DcCloseEvent ==
    /\ \E h \in DOMAIN conns :
        /\ conns[h].closed /\ conns[h].link = "up"
        /\ Commit(onConnDown([Cli EXCEPT !.conns[h].link = "down"], h, now))
        /\ last' = Step("callback", conns[h].att <= superseded, FALSE)
    /\ envFrame
    /\ dirFrame

\* Remote participants: a host creating the session, a joiner taking the
\* pending offer and answering it, the remote host polling.
cliFrame ==
    UNCHANGED <<sessionState, errorMessage, peersShown, sessionNameRef, isHostRef,
                hostIdRef, peersRef, subRef, subOpen, attempts, uuids, tasks, superseded>>

RemoteCreate ==
    /\ remoteCalls < MaxRemote /\ issued < MaxBlobs
    /\ \E name \in Names :
        sessions' = createSession(sessions, now, name, RemoteHost, Blob(issued + 1)).S
    /\ issued' = issued + 1
    /\ remoteCalls' = remoteCalls + 1
    /\ last' = Step("remote", FALSE, FALSE)
    /\ UNCHANGED <<relayVars, joinVars, saveVars, variant, now, ticks, ret, offerReads, answerReads, ousted, polledSince,
                   drained, conns, held>>
    /\ cliFrame

RemoteJoin ==
    /\ remoteCalls < MaxRemote /\ held = Null
    /\ \E name \in Names :
        LET r == joinSession(sessions, now, name) IN
        /\ sessions' = r.S
        /\ held' = IF IsJoiner(r.res) THEN r.res.offer ELSE Null
        /\ conns' = [h \in DOMAIN conns |->
                       IF IsJoiner(r.res) /\ r.res.offer = OfferOf(h)
                       THEN [conns[h] EXCEPT !.taker = RemotePeer] ELSE conns[h]]
    /\ remoteCalls' = remoteCalls + 1
    /\ last' = Step("remote", FALSE, FALSE)
    /\ serveFrame
    /\ cliFrame

RemoteAnswer ==
    /\ held # Null
    /\ \E name \in Names, answer \in {AnswerTo(held), BadAnswer} :
        sessions' = submitAnswer(sessions, name, RemotePeer, answer).S
    /\ held' = Null
    /\ last' = Step("remote", FALSE, FALSE)
    /\ UNCHANGED <<conns, remoteCalls>>
    /\ serveFrame
    /\ cliFrame

\* The remote joiner goes away without answering the offer it took.
RemoteAbandon ==
    /\ held # Null
    /\ held' = Null
    /\ last' = Step("remote", FALSE, FALSE)
    /\ UNCHANGED <<conns, remoteCalls>>
    /\ dirFrame
    /\ cliFrame

RemotePoll ==
    /\ remoteCalls < MaxRemote
    /\ \E name \in Names :
        LET r == pollAnswer(sessions, now, name, RemoteHost) IN
        /\ sessions' = r.S
        /\ conns' = [h \in DOMAIN conns |->
                       IF r.res.ok /\ "answer" \in DOMAIN r.res /\ r.res.answer = AnswerOf(h)
                       THEN [conns[h] EXCEPT !.ready = TRUE] ELSE conns[h]]
    /\ remoteCalls' = remoteCalls + 1
    /\ last' = Step("remote", FALSE, FALSE)
    /\ UNCHANGED held
    /\ serveFrame
    /\ cliFrame

\* The interval callback of lines 1432-1449: disconnected entries older than
\* 30 s are dropped.  A run that drops nothing changes nothing.
\* The sweep with the 1 s poll period as its grace period.
SweptEarly(P, t) ==
    SelectSeq(P, LAMBDA e : ~(/\ e.status = "disconnected"
                              /\ e.disconnectedAt # -1
                              /\ t - e.disconnectedAt > POLL_MS))

Swept(P, t) ==
    SelectSeq(P, LAMBDA e : ~(/\ e.status = "disconnected"
                              /\ e.disconnectedAt # -1
                              /\ t - e.disconnectedAt > SWEEP_AGE_MS))

PeerSweep ==
    /\ Swept(peersRef, now) # peersRef
    /\ Commit(updatePeersState([Cli EXCEPT !.peersRef = Swept(@, now)]))
    /\ last' = Step("sweep", FALSE, FALSE)
    /\ envFrame
    /\ dirFrame

\* Time passes: long enough for a host that stopped polling to become stale,
\* or for a disconnected entry to become old enough for the sweep.
ElapseSteps == {STALE_TAKEOVER_MS + POLL_MS, SWEEP_AGE_MS + POLL_MS}

Elapse ==
    /\ ticks < MaxElapse
    /\ \E d \in ElapseSteps : now' = now + d
    /\ ticks' = ticks + 1
    /\ last' = Step("remote", FALSE, FALSE)
    /\ UNCHANGED <<relayVars, joinVars, saveVars, variant, sessions, ret, issued, offerReads, answerReads, ousted,
                   polledSince, drained, conns, held, remoteCalls>>
    /\ cliFrame

----------------------------------------------------------------------------
(* Update relay (src/src/store.tsx 230-277 and 1023-1080)                  *)
(*                                                                         *)
(* One host and the joiners of PeerIds, each running the store.  Every     *)
(* joiner has at most one link to the host at a time; the host keys its    *)
(* registry by a fresh id per admission, so the entry of an earlier link   *)
(* of the same joiner holds a closed channel, which broadcastUpdate skips: *)
(* hostPeers keeps the joiner's current entry only.  The handshake itself  *)
(* is the subject of the orchestrator above and is one step, Admit, here.  *)
(* With the queue directory the joiner offers and the host answers         *)
(* (store.tsx 280-543); with the single-offer directory the host offers    *)
(* and the joiner answers (store.tsx 1084-1359).  A document is the set of *)
(* updates it has integrated, a message the set of updates it carries.     *)

MaxEdits == 2
MaxDrops == 1

Host == "host"
Parties == {Host} \cup PeerIds
HostAnswers == variant \in {"queue", "api"}

NoEntry == [status |-> "none", dc |-> FALSE]
NoLink == [host |-> "none", peer |-> "none", posted |-> FALSE]
Msg(body, snap) == [body |-> body, snap |-> snap]
Event(op, at, from, msg, origin) ==
    [op |-> op, at |-> at, from |-> from, msg |-> msg, origin |-> origin]

\* RTCDataChannel.readyState = "open": a received channel is open from its
\* datachannel event on, before its open event is dispatched.
ReadyOpen(s) == s \in {"announced", "open"}

Keys(x) == IF x = Host THEN PeerIds ELSE {Host}
LinkOf(x, k) == IF x = Host THEN k ELSE x
Way(x) == IF x = Host THEN "down" ELSE "up"
EntryOf(x, k) == IF x = Host THEN hostPeers[k] ELSE joinerPeers[x]
EndOf(x, k) == IF x = Host THEN links[k].host ELSE links[x].peer

\* The registry entries a broadcast by x reaches.
Reached(x, exclude) ==
    {k \in Keys(x) : k # exclude /\ EntryOf(x, k).dc /\ ReadyOpen(EndOf(x, k))}

broadcastAll(W, x, m, exclude) ==
    [l \in PeerIds |->
        IF \E k \in Reached(x, Null) : LinkOf(x, k) = l
        THEN [W[l] EXCEPT ![Way(x)] = Append(@, m)]
        ELSE W[l]]

broadcastUpdate(W, x, m, exclude) ==
    [l \in PeerIds |->
        IF \E k \in Reached(x, exclude) : LinkOf(x, k) = l
        THEN [W[l] EXCEPT ![Way(x)] = Append(@, m)]
        ELSE W[l]]

onUpdateAnyOrigin(W, x, m, origin) == broadcastUpdate(W, x, m, Null)

\* The handler of the document's "update" event.
onUpdate(W, x, m, origin) ==
    IF origin = "remote" THEN W ELSE broadcastUpdate(W, x, m, Null)

\* Y.applyUpdate(doc, data, origin), and doc.transact for a local edit.
applyUpdate(D, x, m) == [D EXCEPT ![x] = @ \cup m.body]

RelayIdle ==
    /\ docs = [x \in Parties |-> {}]
    /\ hostPeers = [p \in PeerIds |-> NoEntry]
    /\ joinerPeers = [p \in PeerIds |-> NoEntry]
    /\ links = [p \in PeerIds |-> NoLink]
    /\ wire = [p \in PeerIds |-> [up |-> <<>>, down |-> <<>>]]
    /\ edits = 0
    /\ drops = 0
    /\ snapshots = [p \in PeerIds |-> 0]
    /\ ev = Event("init", Null, Null, Null, Null)

relayFrame == UNCHANGED <<dirVars, cliVars, joinVars, saveVars>>

\* Joiner p and the host exchange offer and answer.
Admit(p) ==
    /\ joinerPeers[p].status \in {"none", "disconnected"}
    /\ hostPeers[p].status \in {"none", "disconnected"}
    /\ hostPeers' = [hostPeers EXCEPT ![p] =
                        [status |-> "connecting", dc |-> ~HostAnswers]]
    /\ joinerPeers' = [joinerPeers EXCEPT ![p] =
                        [status |-> "connecting", dc |-> HostAnswers]]
    /\ links' = [links EXCEPT ![p] =
                    IF HostAnswers
                    THEN [host |-> "none", peer |-> "connecting", posted |-> FALSE]
                    ELSE [host |-> "connecting", peer |-> "none", posted |-> TRUE]]
    /\ wire' = [wire EXCEPT ![p] = [up |-> <<>>, down |-> <<>>]]
    /\ snapshots' = [snapshots EXCEPT ![p] = 0]
    /\ ev' = Event("admit", Host, p, Null, Null)
    /\ UNCHANGED <<docs, edits, drops>>
    /\ relayFrame

\* handleJoinRequest resumes after the answer POST and attaches the
\* continuation of the channel promise.
AnswerPosted(p) ==
    /\ HostAnswers
    /\ hostPeers[p].status # "none"
    /\ ~links[p].posted
    /\ links' = [links EXCEPT ![p].posted = TRUE]
    /\ hostPeers' = [hostPeers EXCEPT ![p].dc = links[p].host # "none"]
    /\ ev' = Event("posted", Host, p, Null, Null)
    /\ UNCHANGED <<docs, joinerPeers, wire, edits, drops, snapshots>>
    /\ relayFrame

\* The datachannel event on the answering side resolves the channel promise.
ChannelReceived(p) ==
    /\ IF HostAnswers
       THEN /\ links[p].host = "none" /\ links[p].peer \in {"connecting", "open"}
            /\ links' = [links EXCEPT ![p].host = "announced"]
            /\ hostPeers' = [hostPeers EXCEPT ![p].dc = links[p].posted]
            /\ UNCHANGED joinerPeers
       ELSE /\ links[p].peer = "none" /\ links[p].host \in {"connecting", "open"}
            /\ links' = [links EXCEPT ![p].peer = "announced"]
            /\ joinerPeers' = [joinerPeers EXCEPT ![p].dc = TRUE]
            /\ UNCHANGED hostPeers
    /\ ev' = Event("datachannel", IF HostAnswers THEN Host ELSE p, p, Null, Null)
    /\ UNCHANGED <<docs, wire, edits, drops, snapshots>>
    /\ relayFrame

\* The open event of the host's end: the host's onOpen.
HostDcOpen(p) ==
    /\ links[p].host = (IF HostAnswers THEN "announced" ELSE "connecting")
    /\ links' = [links EXCEPT ![p].host = "open"]
    /\ hostPeers' = [hostPeers EXCEPT ![p].status = "connected"]
    /\ LET m == Msg(docs[Host], TRUE)
           sends == hostPeers[p].dc
       IN /\ wire' = IF sends THEN [wire EXCEPT ![p].down = Append(@, m)] ELSE wire
          /\ snapshots' = IF sends THEN [snapshots EXCEPT ![p] = @ + 1] ELSE snapshots
          /\ ev' = Event("open", Host, p, IF sends THEN m ELSE Null, Null)
    /\ UNCHANGED <<docs, joinerPeers, edits, drops>>
    /\ relayFrame

\* The open event of the joiner's end: the joiner's onOpen.
JoinerDcOpen(p) ==
    /\ links[p].peer = (IF HostAnswers THEN "connecting" ELSE "announced")
    /\ links' = [links EXCEPT ![p].peer = "open"]
    /\ joinerPeers' = [joinerPeers EXCEPT ![p].status = "connected"]
    /\ ev' = Event("open", p, Host, Null, Null)
    /\ UNCHANGED <<docs, hostPeers, wire, edits, drops, snapshots>>
    /\ relayFrame

\* A user edits the document of x.
LocalEdit(x) ==
    /\ edits < MaxEdits
    /\ LET m == Msg({edits + 1}, FALSE)
       IN /\ docs' = applyUpdate(docs, x, m)
          /\ wire' = onUpdate(wire, x, m, "local")
          /\ ev' = Event("edit", x, Null, m, "local")
    /\ edits' = edits + 1
    /\ UNCHANGED <<hostPeers, joinerPeers, links, drops, snapshots>>
    /\ relayFrame

\* makeHostOnMessage(p): a message of joiner p reaches the host.
HostMessage(p) ==
    /\ links[p].host = "open"
    /\ wire[p].up # <<>>
    /\ LET m == Head(wire[p].up)
           taken == [wire EXCEPT ![p].up = Tail(@)]
           heard == onUpdate(taken, Host, m, "remote")
       IN /\ docs' = applyUpdate(docs, Host, m)
          /\ wire' = broadcastUpdate(heard, Host, m, p)
          /\ ev' = Event("message", Host, p, m, "remote")
    /\ UNCHANGED <<hostPeers, joinerPeers, links, edits, drops, snapshots>>
    /\ relayFrame

\* The joiner's onMessage: a message of the host reaches joiner p.
JoinerMessage(p) ==
    /\ links[p].peer = "open"
    /\ wire[p].down # <<>>
    /\ LET m == Head(wire[p].down)
           taken == [wire EXCEPT ![p].down = Tail(@)]
       IN /\ docs' = applyUpdate(docs, p, m)
          /\ wire' = onUpdate(taken, p, m, "remote")
          /\ ev' = Event("message", p, Host, m, "remote")
    /\ UNCHANGED <<hostPeers, joinerPeers, links, edits, drops, snapshots>>
    /\ relayFrame

\* The link of joiner p goes down: both ends close, what was in flight is
\* lost, and each side's onClose marks its entry disconnected.
LinkDown(p) ==
    /\ drops < MaxDrops
    /\ links[p].host \in {"connecting", "announced", "open"}
    /\ links[p].peer \in {"connecting", "announced", "open"}
    /\ links' = [links EXCEPT ![p].host = "closed", ![p].peer = "closed"]
    /\ hostPeers' = [hostPeers EXCEPT ![p].status = "disconnected"]
    /\ joinerPeers' = [joinerPeers EXCEPT ![p].status = "disconnected"]
    /\ wire' = [wire EXCEPT ![p] = [up |-> <<>>, down |-> <<>>]]
    /\ drops' = drops + 1
    /\ ev' = Event("close", Host, p, Null, Null)
    /\ UNCHANGED <<docs, edits, snapshots>>
    /\ relayFrame

----------------------------------------------------------------------------
(* Debounced persistence (src/src/store.tsx 215-227, and 1005-1019 with     *)
(* debounceTime(2000) in place of the hand-written timer).                   *)
(*                                                                           *)
(* Every "update" event of the document, whatever its origin, runs the       *)
(* handler; the handler cancels the timer it set last and sets a new one.    *)
(* Time advances in steps of half the delay and a timer fires when it is    *)
(* due, before time moves on.  The provider stays mounted.                   *)

MaxSaveClock == 6
MaxUpdates == 3

\* setTimeout(..., 2000) of the handler; debounceTime(2000).
DEBOUNCE_MS == 2000

\* The clock moves by half the delay, so that two events can fall within
\* the delay of one another or outside it.
SaveStep == DEBOUNCE_MS \div 2

Origins == {"local", "remote"}

SaveTimer(id, due) == [id |-> id, due |-> due]
Logged(kind, at, origin) == [kind |-> kind, at |-> at, origin |-> origin]

Updates(log) == SelectSeq(log, LAMBDA e : e.kind = "update")

\* clearTimeout(h): a no-op for null and for a timer that has fired.
clearTimeout(T, h) == {x \in T : x.id # h}

\* The handler that sets a new timer without cancelling the one before.
saveHandlerNoClear(T, ref, id, t) == T \cup {SaveTimer(id, t + DEBOUNCE_MS)}

\* `if (saveTimerRef.current) clearTimeout(saveTimerRef.current);
\*  saveTimerRef.current = setTimeout(() => saveToLocalStorage(doc), 2000);`
saveHandler(T, ref, id, t) == clearTimeout(T, ref) \cup {SaveTimer(id, t + DEBOUNCE_MS)}

SaveIdle ==
    /\ saveTimerRef = 0
    /\ saveTimers = {}
    /\ saveLog = <<>>

saveFrame == UNCHANGED <<cliVars, relayVars, joinVars>>

\* doc.on("update", handler): a local edit or an applied remote update.
DocUpdate ==
    /\ Len(Updates(saveLog)) < MaxUpdates
    /\ \E origin \in Origins :
        LET id == Len(saveLog) + 1 IN
        /\ saveTimers' = saveHandler(saveTimers, saveTimerRef, id, now)
        /\ saveTimerRef' = id
        /\ saveLog' = Append(saveLog, Logged("update", now, origin))
    /\ UNCHANGED dirVars
    /\ saveFrame

\* The timer's callback: saveToLocalStorage(doc).
SaveTimerFires ==
    /\ \E x \in saveTimers :
        /\ x.due <= now
        /\ saveTimers' = saveTimers \ {x}
        /\ saveLog' = Append(saveLog, Logged("save", now, Null))
    /\ UNCHANGED <<saveTimerRef, dirVars>>
    /\ saveFrame

SaveClock ==
    /\ ticks < MaxSaveClock
    /\ \A x \in saveTimers : x.due >= now + SaveStep
    /\ now' = now + SaveStep
    /\ ticks' = ticks + 1
    /\ UNCHANGED <<variant, sessions, ret, issued, offerReads, answerReads, ousted,
                   polledSince, drained, saveVars>>
    /\ saveFrame

----------------------------------------------------------------------------
(* The joiner of the callback revision (src/src/store.tsx 390-586) with the *)
(* queue directory: joinSession, attemptJoinConnection and leaveSession.     *)
(*                                                                           *)
(* The joiner makes the offer, posts it as a join request and asks for the   *)
(* answer once a second.  Each action is one callback.  Time advances in    *)
(* steps of one second, and a timer fires when it is due, before time moves  *)
(* on (time is followed only while the joiner is in a session).  A remote  *)
(* host creates the session and answers the join requests it reads.          *)

MaxJoinCalls == 1
MaxJoinAttempts == 2
MaxJoinClock == 36
MaxInFlight == 1

\* setInterval(..., 1000), `attempts > 30`, setTimeout(..., 3000).
JOIN_POLL_MS == 1000
JOIN_POLL_LIMIT == 30
REJOIN_MS == 3000

\* A timer of the joiner: the interval of attempt att (count ticks so far) or
\* the timeout that starts the next attempt; blob holds the time it is due.
Timer(k, att, name, peerId, conn, count, due) ==
    Task(k, att, name, Null, peerId, conn, count, due, NoRes, Null)

JoinTimers == {"interval", "rejoin"}

\* createOffer and the join request complete within the second they start
\* in; a get-answer request takes any amount of time.
Prompt == {"jOffer", "jJoinReq", "jJoinResp"}

\* The get-answer requests of the joiner that have not been answered yet.
InFlight(T) == {t \in T : t.k \in {"jAnswerReq", "jAnswerResp"}}

\* `joinAttemptRef.current !== attemptId || joinedSessionRef.current !== name`
isStale(att, name) == joinAttemptRef # att \/ joinedSessionRef # name

\* clearInterval(h): the interval made by attempt h, if it still runs.
clearInterval(T, h) == {t \in T : ~(t.k = "interval" /\ t.att = h)}

\* `setTimeout(() => { if (!isStale()) attemptJoinConnection(name); }, 3000)`
rejoinLater(c, t) ==
    [c EXCEPT !.tasks = @ \cup {Timer("rejoin", t.att, t.name, Null, 0, 0, now + REJOIN_MS)}]

\* cleanupJoinerState, then attemptJoinConnection up to `await createOffer`,
\* which constructs the connection at once.
attemptJoinConnection(c, name, att) ==
    LET i == PeerIdx(c.peersRef, "host")
        c1 == [c EXCEPT !.tasks = clearInterval(@, pollRef),
                        !.conns = IF i = 0 THEN @ ELSE close(@, {c.peersRef[i].pc}),
                        !.peersRef = PeerDel(@, "host")]
    IN  [c1 EXCEPT !.uuids = @ + 1,
                   !.conns = Append(@, Conn("joiner", att, "host")),
                   !.tasks = @ \cup {Task("jOffer", att, name, Null, Uid(c.uuids + 1),
                                          Len(c.conns) + 1, 0, Null, NoRes, Null)}]

\* The branch of the interval callback that gives the attempt up.
giveUp(c, t) ==
    [c EXCEPT !.tasks = clearInterval(@, pollRef),
              !.conns = close(@, {t.conn}),
              !.peersRef = PeerDel(@, "host")]

JoinIdle ==
    /\ joinAttemptRef = 0
    /\ joinedSessionRef = Null
    /\ pollRef = 0

joinFrame == UNCHANGED <<dirVars, relayVars, saveVars>>
joinServeFrame ==
    UNCHANGED <<relayVars, saveVars, joinVars, variant, now, ticks, ret, issued, offerReads,
                answerReads, ousted, polledSince, drained, sessionState, errorMessage,
                peersShown, sessionNameRef, isHostRef, hostIdRef, peersRef, subRef, subOpen,
                uuids, conns>>

\* joinSession(name), lines 545-556.
JoinSessionCall ==
    /\ attempts < MaxJoinCalls /\ joinAttemptRef < MaxJoinAttempts
    /\ \E name \in Names :
        /\ Commit(attemptJoinConnection(
                    [Cli EXCEPT !.sessionState = "joining", !.errorMessage = Null,
                                !.isHostRef = FALSE, !.sessionNameRef = name],
                    name, joinAttemptRef + 1))
        /\ joinedSessionRef' = name
    /\ joinAttemptRef' = joinAttemptRef + 1
    /\ pollRef' = 0
    /\ attempts' = attempts + 1
    /\ last' = Step("joinSession", FALSE, FALSE)
    /\ UNCHANGED <<held, remoteCalls, superseded>>
    /\ joinFrame

\* leaveSession of the callback revision, lines 560-586.  The joiner is not
\* the host, so no delete request is sent.
LeaveSessionJ ==
    /\ joinedSessionRef # Null
    /\ Commit([Cli EXCEPT !.tasks = clearInterval(@, pollRef),
                          !.conns = close(@, {peersRef[i].pc : i \in 1..Len(peersRef)}),
                          !.peersRef = <<>>, !.hostIdRef = Null, !.isHostRef = FALSE,
                          !.sessionState = "idle", !.sessionNameRef = Null,
                          !.peersShown = <<>>, !.errorMessage = Null])
    /\ joinedSessionRef' = Null
    /\ pollRef' = 0
    /\ last' = Step("leaveSession", FALSE, FALSE)
    /\ UNCHANGED joinAttemptRef
    /\ envFrame
    /\ joinFrame

\* createOffer resolved, lines 451-466: a stale attempt closes its connection.
JOfferCreated ==
    /\ \E t \in tasks :
        /\ t.k = "jOffer"
        /\ LET c == [Cli EXCEPT !.tasks = @ \ {t}, !.conns[t.conn].made = TRUE] IN
           Commit(IF isStale(t.att, t.name)
                  THEN [c EXCEPT !.conns = close(@, {t.conn})]
                  ELSE [c EXCEPT !.tasks = @ \cup
                          {[t EXCEPT !.k = "jJoinReq", !.blob = OfferOf(t.conn)]}])
        /\ last' = Step("callback", isStale(t.att, t.name), FALSE)
    /\ UNCHANGED joinVars
    /\ envFrame
    /\ joinFrame

\* createOffer rejected, lines 454-461.
JOfferFailed ==
    /\ \E t \in tasks :
        /\ t.k = "jOffer"
        /\ LET c == [Cli EXCEPT !.tasks = @ \ {t}] IN
           Commit(IF isStale(t.att, t.name) THEN c ELSE rejoinLater(c, t))
        /\ last' = Step("callback", isStale(t.att, t.name), FALSE)
    /\ UNCHANGED joinVars
    /\ envFrame
    /\ joinFrame

\* POST /api/sessions/:name/join
ServeJoinRequest ==
    /\ \E t \in tasks :
        /\ t.k = "jJoinReq"
        /\ LET r == submitJoinRequest(sessions, t.name, t.peerId, t.blob) IN
           /\ sessions' = r.S
           /\ tasks' = Served(t, "jJoinResp", r.res)
           /\ last' = Step("request", FALSE, FALSE)
    /\ envFrame
    /\ joinServeFrame

\* The response to the join request, lines 478-540: a refusal closes the
\* connection and tries again in 3 s; otherwise the "host" entry is
\* registered and the answer poll starts.
OnJoinRequest ==
    /\ \E t \in tasks :
        /\ t.k = "jJoinResp"
        /\ LET c == [Cli EXCEPT !.tasks = @ \ {t}]
               shut == [c EXCEPT !.conns = close(@, {t.conn})]
               stale == isStale(t.att, t.name)
           IN  /\ Commit(IF ~t.res.ok
                         THEN IF stale THEN shut ELSE rejoinLater(shut, t)
                         ELSE IF stale THEN shut
                         ELSE updatePeersState(
                                [c EXCEPT !.peersRef =
                                              PeerSet(@, [Entry("host", t.conn) EXCEPT !.dc = t.conn]),
                                          !.tasks = @ \cup
                                              {Timer("interval", t.att, t.name, t.peerId, t.conn,
                                                     0, now + JOIN_POLL_MS)}]))
               /\ pollRef' = IF t.res.ok /\ ~stale THEN t.att ELSE pollRef
               /\ last' = Step("callback", stale, FALSE)
    /\ UNCHANGED <<joinAttemptRef, joinedSessionRef>>
    /\ envFrame
    /\ joinFrame

\* The interval callback up to its fetch, lines 513-530.
PollTick ==
    /\ \E t \in tasks :
        /\ t.k = "interval" /\ t.blob <= now
        /\ LET n == t.cur + 1
               stale == isStale(t.att, t.name)
               again == [t EXCEPT !.cur = n, !.blob = t.blob + JOIN_POLL_MS]
               c == [Cli EXCEPT !.tasks = (@ \ {t}) \cup {again}]
           IN  /\ (~stale /\ n <= JOIN_POLL_LIMIT) => Cardinality(InFlight(tasks)) < MaxInFlight
               /\ Commit(IF stale THEN giveUp(c, t)
                         ELSE IF n > JOIN_POLL_LIMIT THEN rejoinLater(giveUp(c, t), t)
                         ELSE [c EXCEPT !.tasks = @ \cup
                                 {Task("jAnswerReq", t.att, t.name, Null, t.peerId, t.conn,
                                       n, Null, NoRes, Null)}])
               /\ pollRef' = IF stale \/ n > JOIN_POLL_LIMIT THEN 0 ELSE pollRef
               /\ last' = Step("pollTick", stale, FALSE)
    /\ UNCHANGED <<joinAttemptRef, joinedSessionRef>>
    /\ envFrame
    /\ joinFrame

\* GET /api/sessions/:name/answer/:peerId
ServeGetAnswer ==
    /\ \E t \in tasks :
        /\ t.k = "jAnswerReq"
        /\ LET r == getAnswer(sessions, t.name, t.peerId) IN
           /\ sessions' = r.S
           /\ tasks' = Served(t, "jAnswerResp", r.res)
           /\ last' = Step("request", FALSE, FALSE)
    /\ envFrame
    /\ joinServeFrame

\* The response of a get-answer request, lines 531-539: with an answer, the
\* interval pollRef refers to is cleared and acceptAnswer is called, whose
\* rejection (a closed connection) is caught.  There is no isStale() here.
OnGetAnswer ==
    /\ \E t \in tasks :
        /\ t.k = "jAnswerResp"
        /\ LET c == [Cli EXCEPT !.tasks = @ \ {t}]
               answered == t.res.ok /\ "answer" \in DOMAIN t.res
           IN  /\ Commit(IF ~answered THEN c
                         ELSE LET c1 == [c EXCEPT !.tasks = clearInterval(@, pollRef)] IN
                              IF Rejects(conns[t.conn], t.res.answer) THEN c1
                              ELSE [c1 EXCEPT !.conns[t.conn].ice = TRUE,
                                              !.conns[t.conn].ready =
                                                  t.res.answer = AnswerTo(OfferOf(t.conn))])
               /\ pollRef' = IF answered THEN 0 ELSE pollRef
               /\ last' = Step("callback", isStale(t.att, t.name), FALSE)
    /\ UNCHANGED <<joinAttemptRef, joinedSessionRef>>
    /\ envFrame
    /\ joinFrame

\* The timeout set by rejoinLater fired, lines 521-523.
RejoinTimer ==
    /\ \E t \in tasks :
        /\ t.k = "rejoin" /\ t.blob <= now
        /\ ~isStale(t.att, t.name) => joinAttemptRef < MaxJoinAttempts
        /\ LET c == [Cli EXCEPT !.tasks = @ \ {t}]
               stale == isStale(t.att, t.name)
           IN  /\ Commit(IF stale THEN c
                         ELSE attemptJoinConnection(c, t.name, joinAttemptRef + 1))
               /\ joinAttemptRef' = IF stale THEN joinAttemptRef ELSE joinAttemptRef + 1
               /\ pollRef' = IF stale THEN pollRef ELSE 0
               /\ last' = Step("rejoin", stale, FALSE)
    /\ UNCHANGED joinedSessionRef
    /\ envFrame
    /\ joinFrame

\* onOpen of the joiner's data channel, lines 430-436.
JDcOpen ==
    /\ \E h \in DOMAIN conns :
        /\ ~conns[h].closed /\ conns[h].ready /\ conns[h].link = "new"
        /\ LET c == [Cli EXCEPT !.conns[h].link = "up"]
               i == PeerIdx(peersRef, "host")
               stale == isStale(conns[h].att, sessionNameRef)
           IN  /\ Commit(IF stale THEN c
                         ELSE updatePeersState(
                                [(IF i = 0 THEN c ELSE [c EXCEPT !.peersRef[i].status = "connected"])
                                   EXCEPT !.sessionState = "connected"]))
               /\ last' = Step("callback", stale, FALSE)
    /\ UNCHANGED joinVars
    /\ envFrame
    /\ joinFrame

\* onClose of the joiner's data channel, lines 437-449: the channel of an
\* open connection is closed by the host, or the close event follows the
\* joiner's own pc.close().
JDcClose ==
    /\ \E h \in DOMAIN conns :
        /\ conns[h].link = "up"
        /\ LET c == [Cli EXCEPT !.conns[h].link = "down"]
               i == PeerIdx(peersRef, "host")
               stale == isStale(conns[h].att, sessionNameRef)
               t == Timer("rejoin", conns[h].att, sessionNameRef, Null, 0, 0, 0)
           IN  /\ Commit(IF stale THEN c
                         ELSE rejoinLater(
                                updatePeersState(
                                  [(IF i = 0 THEN c
                                    ELSE [c EXCEPT !.peersRef[i].status = "disconnected",
                                                   !.peersRef[i].disconnectedAt = now])
                                     EXCEPT !.sessionState = "joining"]), t))
               /\ last' = Step("callback", stale, FALSE)
    /\ UNCHANGED joinVars
    /\ envFrame
    /\ joinFrame

\* The remote host: hostSession's createSession and one round of its 2 s
\* poll (every request read is answered, handleJoinRequest).
RECURSIVE AnswerAll(_, _, _)
AnswerAll(S, name, reqs) ==
    IF reqs = <<>> THEN S
    ELSE AnswerAll(submitAnswerQ(S, name, Head(reqs).peerId, AnswerTo(Head(reqs).offer)).S,
                   name, Tail(reqs))

joinEnvFrame ==
    UNCHANGED <<relayVars, saveVars, joinVars, variant, now, ticks, ret, issued, offerReads,
                answerReads, ousted, polledSince, drained, sessionState, errorMessage,
                peersShown, sessionNameRef, isHostRef, hostIdRef, peersRef, subRef, subOpen,
                attempts, uuids, conns, tasks, held, superseded>>

HostCreates ==
    /\ remoteCalls < MaxRemote
    /\ \E name \in Names :
        /\ createSessionQ(sessions, now, name, RemoteHost).res.ok
        /\ sessions' = createSessionQ(sessions, now, name, RemoteHost).S
    /\ remoteCalls' = remoteCalls + 1
    /\ last' = Step("remote", FALSE, FALSE)
    /\ joinEnvFrame

HostServes ==
    /\ remoteCalls < MaxRemote
    /\ \E name \in Names :
        LET r == getJoinRequests(sessions, now, name, RemoteHost) IN
        /\ r.res.ok
        /\ sessions' = AnswerAll(r.S, name, r.res.requests)
    /\ remoteCalls' = remoteCalls + 1
    /\ last' = Step("remote", FALSE, FALSE)
    /\ joinEnvFrame

JoinClock ==
    /\ ticks < MaxJoinClock
    /\ joinedSessionRef # Null
    /\ \A t \in tasks : t.k \in JoinTimers => t.blob >= now + JOIN_POLL_MS
    /\ \A t \in tasks : t.k \notin Prompt
    /\ now' = now + JOIN_POLL_MS
    /\ ticks' = ticks + 1
    /\ last' = Step("clock", FALSE, FALSE)
    /\ UNCHANGED <<relayVars, saveVars, joinVars, variant, sessions, ret, issued, offerReads,
                   answerReads, ousted, polledSince, drained, sessionState, errorMessage,
                   peersShown, sessionNameRef, isHostRef, hostIdRef, peersRef, subRef, subOpen,
                   attempts, uuids, conns, tasks, held, remoteCalls, superseded>>

RxInit == DirInit /\ variant = "slot" /\ CliInit /\ RelayIdle /\ JoinIdle /\ SaveIdle

RxNext ==
    \/ ConnectToSession
    \/ LeaveSession
    \/ ServeJoinSession
    \/ OnJoinSession
    \/ OfferCreated
    \/ OfferFailed
    \/ ServeCreateSession
    \/ OnCreateSession
    \/ ServeReplaceOffer
    \/ OnReplaceOffer
    \/ ServePollAnswer
    \/ OnPollAnswer
    \/ PollLost
    \/ PollTimer
    \/ AnswerAccepted
    \/ OfferAccepted
    \/ ServeSubmitAnswer
    \/ OnSubmitAnswer
    \/ RetryTimer
    \/ ServeDeleteSession
    \/ DcOpen
    \/ ConnDown
    \/ PcDown
    \/ DcCloseEvent
    \/ RemoteCreate
    \/ RemoteJoin
    \/ RemoteAnswer
    \/ RemoteAbandon
    \/ RemotePoll
    \/ PeerSweep
    \/ Elapse

Init == DirInit /\ CliInit /\ RelayIdle /\ JoinIdle /\ SaveIdle
Next == DirNext
vars == <<dirVars, cliVars, relayVars, joinVars, saveVars>>
Spec == Init /\ [][Next]_vars
SpecRx == RxInit /\ [][RxNext]_vars

RelayInit == DirInit /\ variant \in {"queue", "slot"} /\ CliInit /\ RelayIdle /\ JoinIdle /\ SaveIdle

RelayNext ==
    \/ \E p \in PeerIds : Admit(p)
    \/ \E p \in PeerIds : AnswerPosted(p)
    \/ \E p \in PeerIds : ChannelReceived(p)
    \/ \E p \in PeerIds : HostDcOpen(p)
    \/ \E p \in PeerIds : JoinerDcOpen(p)
    \/ \E x \in Parties : LocalEdit(x)
    \/ \E p \in PeerIds : HostMessage(p)
    \/ \E p \in PeerIds : JoinerMessage(p)
    \/ \E p \in PeerIds : LinkDown(p)

SpecRelay == RelayInit /\ [][RelayNext]_vars

JoinInit == DirInit /\ variant = "queue" /\ CliInit /\ RelayIdle /\ JoinIdle /\ SaveIdle

JoinNext ==
    \/ JoinSessionCall
    \/ LeaveSessionJ
    \/ JOfferCreated
    \/ JOfferFailed
    \/ ServeJoinRequest
    \/ OnJoinRequest
    \/ PollTick
    \/ ServeGetAnswer
    \/ OnGetAnswer
    \/ RejoinTimer
    \/ JDcOpen
    \/ JDcClose
    \/ HostCreates
    \/ HostServes
    \/ JoinClock

SpecJoin == JoinInit /\ [][JoinNext]_vars

SaveInit == DirInit /\ variant = "slot" /\ CliInit /\ RelayIdle /\ JoinIdle /\ SaveIdle

SaveNext ==
    \/ DocUpdate
    \/ SaveTimerFires
    \/ SaveClock

SpecSave == SaveInit /\ [][SaveNext]_vars

----------------------------------------------------------------------------
(* Claims about the session directory *)

\* Three joinSession calls for one name at the same instant.
ThreeJoins(name) ==
    LET r1 == joinSession(sessions, now, name)
        r2 == joinSession(r1.S, now, name)
        r3 == joinSession(r2.S, now, name)
    IN  <<r1.res, r2.res, r3.res>>

\* C1: single consumption of offers.  In every reachable state of either
\* directory, no published offer has been returned by more than one call
\* (joinSession in the single-slot directory, getJoinRequests in the queue
\* directory), whatever the interleaving of callers.  When a pending offer of
\* a non-stale session is read by three joinSession calls, the first gets
\* role=joiner with that offer and the others get the busy error.  In the
\* queue directory a successful getJoinRequests for a name that has been
\* polled since its last submitJoinRequest returns an empty list.
C1_SingleConsumption ==
    /\ \A b \in DOMAIN offerReads : offerReads[b] <= 1
    /\ variant = "slot" =>
         \A name \in DOMAIN sessions :
            (~Stale(sessions[name], now) /\ sessions[name].currentOffer # Null) =>
               LET rs == ThreeJoins(name) IN
               /\ IsJoiner(rs[1]) /\ rs[1].offer = sessions[name].currentOffer
               /\ IsBusy(rs[2]) /\ IsBusy(rs[3])
    /\ variant # "slot" =>
         \A name \in polledSince, hostId \in HostIds :
            LET r == getJoinRequests(sessions, now, name, hostId) IN
            r.res.ok => r.res.requests = <<>>

\* Witness of C1: an offer has been handed to a joiner and a later joinSession
\* for the same session was answered busy.
C1_Witness ==
    /\ variant = "slot"
    /\ ret.op = "joinSession" /\ IsBusy(ret.res)
    /\ \E b \in DOMAIN offerReads : offerReads[b] = 1

\* What C2 says of one createSession or deleteSession step; `live` tells when
\* a record within the takeover window must make createSession fail.
TakeoverStep(live(_)) ==
    /\ ret'.op = "createSession" /\ Has(sessions, ret'.name)
       /\ sessions[ret'.name].hostId # ret'.hostId =>
          IF now - sessions[ret'.name].lastHostPoll <= STALE_TAKEOVER_MS
          THEN live(ret'.name) =>
                 /\ ~ret'.res.ok
                 /\ ret'.res.error = "Session name already taken"
                 /\ Has(sessions', ret'.name)
                 /\ sessions'[ret'.name] = sessions[ret'.name]
          ELSE /\ ret'.res.ok
               /\ sessions'[ret'.name].hostId = ret'.hostId
    /\ ret'.op = "deleteSession" /\ <<ret'.name, ret'.hostId>> \in ousted =>
          /\ ret'.res = FALSE
          /\ sessions' = sessions

AnyRecord(name) == TRUE
NotExpiredInApi(name) ==
    variant = "api" =>
        /\ now - sessions[name].createdAt <= SESSION_MAX_AGE_MS
        /\ now - sessions[name].lastHostPoll <= HOST_POLL_TIMEOUT_MS

C3_AnswerReadOnce ==
    /\ \A b \in DOMAIN answerReads : answerReads[b] <= 1
    /\ \A k \in drained :
         IF variant = "slot"
         THEN \A hostId \in HostIds :
                LET r == pollAnswer(sessions, now, k[1], hostId) IN
                /\ ReturnedAnswers(r.res) = {}
                /\ r.res.ok => r.res.peerId = Null
         ELSE LET r == getAnswer(sessions, k[1], k[2]) IN
              /\ ~r.res.ok
              /\ Has(sessions, k[1]) => r.res.error = "No answer yet"

\* Witness of C3: a pollAnswer by the host, on a slot whose answer was read
\* before and not submitted again, has just returned peerId = null.
C3_Witness ==
    /\ ret.op = "pollAnswer" /\ ret.res.ok /\ ret.res.peerId = Null
    /\ <<ret.name, Null>> \in drained
    /\ \E b \in DOMAIN answerReads : answerReads[b] = 1

NonCreatingOps ==
    {"joinSession", "submitJoinRequest", "getJoinRequests", "submitAnswer",
     "getAnswer", "pollAnswer", "replaceOffer"}

\* C4: host identity.  Every stored record holds one hostId; the hostId stored
\* for a name is set or changed only by a successful createSession for that
\* name, to the caller's hostId, and it replaces another host's record only when
\* that record is stale (in api/_signaling.ts: stale or expired); joinSession,
\* submitJoinRequest, getJoinRequests, submitAnswer, getAnswer, pollAnswer and
\* replaceOffer neither create a record nor change the hostId of one.
C4_HostIdentity ==
    /\ [](\A n \in DOMAIN sessions : n \in Names /\ sessions[n].hostId \in HostIds)
    /\ [][\A n \in Names :
            /\ (Has(sessions', n)
                /\ (~Has(sessions, n) \/ sessions'[n].hostId # sessions[n].hostId)) =>
                  /\ ret'.op = "createSession" /\ ret'.res.ok /\ ret'.name = n
                  /\ sessions'[n].hostId = ret'.hostId
                  /\ Has(sessions, n) =>
                       \/ now - sessions[n].lastHostPoll > STALE_TAKEOVER_MS
                       \/ variant = "api"
                          /\ now - sessions[n].createdAt > SESSION_MAX_AGE_MS
            /\ ret'.op \in NonCreatingOps =>
                  /\ ~Has(sessions, n) => ~Has(sessions', n)
                  /\ Has(sessions, n) /\ Has(sessions', n) =>
                       sessions'[n].hostId = sessions[n].hostId
         ]_vars

\* Witness of C4: a createSession has just replaced another host's record.
C4_Witness ==
    /\ ret.op = "createSession" /\ ret.res.ok
    /\ ret.was \notin {Null, ret.hostId}
    /\ sessions[ret.name].hostId = ret.hostId

\* C5: deleteSession(name, hostId) returns true and removes the record exactly
\* when a record for name exists whose hostId equals hostId; otherwise it
\* returns false and leaves the directory unchanged.  A deleteSession repeated
\* directly after a successful one with the same arguments returns false.
C5_DeleteSession ==
    [][ret'.op = "deleteSession" =>
         /\ ret'.res = (/\ Has(sessions, ret'.name)
                        /\ sessions[ret'.name].hostId = ret'.hostId)
         /\ ret'.res => sessions' = Del(sessions, ret'.name)
         /\ ~ret'.res => sessions' = sessions
         /\ (/\ ret.op = "deleteSession" /\ ret.res
             /\ ret.name = ret'.name /\ ret.hostId = ret'.hostId) => ~ret'.res
      ]_vars

\* Witness of C5: a deleteSession by the stored host has just removed the record.
C5_Witness ==
    /\ ret.op = "deleteSession" /\ ret.res
    /\ ret.was = ret.hostId
    /\ ~Has(sessions, ret.name)

\* C6: joinSession(name) decision table.  It returns role=host exactly when no
\* record exists or the record is stale (now - lastHostPoll > 10 s), deleting
\* the record in the stale case and changing nothing when there is none; it
\* returns role=joiner with the stored offer exactly when the record is not
\* stale and currentOffer is not null, and then sets currentOffer to null; in
\* the remaining case it returns the busy error and changes nothing.
C6_JoinSession ==
    [][ret'.op = "joinSession" =>
         LET name == ret'.name
             res == ret'.res
             absent == ~Has(sessions, name)
             stale == ~absent /\ now - sessions[name].lastHostPoll > STALE_TAKEOVER_MS
             ready == ~absent /\ ~stale /\ sessions[name].currentOffer # Null
         IN  /\ (res.ok /\ res.role = "host") <=> (absent \/ stale)
             /\ absent => sessions' = sessions
             /\ stale => sessions' = Del(sessions, name)
             /\ IsJoiner(res) <=> ready
             /\ ready => /\ res.offer = sessions[name].currentOffer
                         /\ sessions' = [sessions EXCEPT ![name].currentOffer = Null]
             /\ ~absent /\ ~stale /\ ~ready => IsBusy(res) /\ sessions' = sessions
      ]_vars

\* Witness of C6: after a host created the session with an offer, a joinSession
\* has just returned role=joiner with that offer and emptied the slot.
C6_Witness ==
    /\ ret.op = "joinSession" /\ IsJoiner(ret.res)
    /\ ret.was \in HostIds
    /\ sessions[ret.name].currentOffer = Null

\* The record createSession installs, per directory.
FreshRecord(name, hostId, offer) ==
    IF variant = "slot"
    THEN [name |-> name, hostId |-> hostId, createdAt |-> now, lastHostPoll |-> now,
          currentOffer |-> offer, pendingAnswer |-> NullAnswer]
    ELSE [name |-> name, hostId |-> hostId, createdAt |-> now, lastHostPoll |-> now,
          joinRequests |-> <<>>, answers |-> EmptyMap]

\* C7: in the two directories of src/src/signaling.ts, createSession fails
\* ("Session name already taken", directory unchanged) exactly when a record
\* for name exists with now - lastHostPoll <= 10 s, whoever the caller is;
\* otherwise it succeeds and installs a fresh record: the caller's hostId,
\* createdAt = lastHostPoll = now, the given offer and no pending answer
\* (queue directory: no join requests, no answers), whatever was stored before.
C7_CreateSession ==
    [][ret'.op = "createSession" /\ variant \in {"slot", "queue"} =>
         LET name == ret'.name
             taken == /\ Has(sessions, name)
                      /\ now - sessions[name].lastHostPoll <= STALE_TAKEOVER_MS
         IN  /\ ~ret'.res.ok <=> taken
             /\ taken => /\ ret'.res.error = "Session name already taken"
                         /\ sessions' = sessions
             /\ ~taken => sessions' =
                    Put(sessions, name, FreshRecord(name, ret'.hostId, Blob(issued')))
      ]_vars

\* Witness of C7: a createSession has just succeeded on a name that held a
\* stale record, and the stored record is the fresh one.
C7_Witness ==
    /\ variant \in {"slot", "queue"}
    /\ ret.op = "createSession" /\ ret.res.ok /\ ret.was # Null
    /\ sessions[ret.name].createdAt = now /\ now > 0

HostOps == {"getJoinRequests", "pollAnswer", "replaceOffer", "deleteSession"}

\* C8: a host-authenticated operation (getJoinRequests, pollAnswer,
\* replaceOffer, deleteSession) called with a hostId other than the stored one
\* fails and leaves the directory unchanged: lastHostPoll is not refreshed, no
\* join request is consumed, no answer is cleared, no offer is replaced.
C8_WrongHostFrame ==
    [][(/\ ret'.op \in HostOps
        /\ Has(sessions, ret'.name)
        /\ sessions[ret'.name].hostId # ret'.hostId) =>
         /\ sessions' = sessions
         /\ IF ret'.op = "deleteSession" THEN ret'.res = FALSE ELSE ~ret'.res.ok
      ]_vars

\* Witness of C8: a pollAnswer by another host has just failed on a session
\* that is older than its last poll and holds a pending answer.
C8_Witness ==
    /\ ret.op = "pollAnswer" /\ ~ret.res.ok /\ ret.res.error = "Not the host"
    /\ sessions[ret.name].pendingAnswer # NullAnswer
    /\ now > sessions[ret.name].lastHostPoll

----------------------------------------------------------------------------
(* Claims about the connection orchestrator *)

Requests == {"joinReq", "createReq", "replaceReq", "pollReq", "submitReq", "deleteReq"}

\* The connections made by attempts that were superseded and have nothing
\* left to run.
Abandoned(T, C, n) ==
    {h \in DOMAIN C : C[h].att <= n /\ ~\E t \in T : t.att = C[h].att}

\* C9: attempt cancellation.  A callback of a connect attempt (a promise
\* continuation, a timer, a data-channel or connection event) that runs after
\* the attempt was superseded by leaveSession or by a newer connectToSession
\* changes neither sessionState, nor hostId / isHost, nor the peer registry,
\* and issues no directory request; and once a superseded attempt has nothing
\* left to run, every connection it opened is closed.
C9_AttemptCancellation ==
    [][(last'.op = "callback" /\ last'.stale) =>
         /\ UNCHANGED <<sessionState, hostIdRef, isHostRef, peersRef>>
         /\ {t \in tasks' : t.k \in Requests} \subseteq tasks
         /\ \A h \in Abandoned(tasks', conns', superseded') : conns'[h].closed
      ]_vars

\* C10: leaveSession, in any state and at any point of an attempt, ends with
\* sessionState = idle, an empty registry, every connection the registry held
\* closed and no poll or retry timer left; it sends delete-session exactly when
\* the client was host and holds a hostId; and sessionState, once idle, leaves
\* idle only by a connectToSession call.
C10_LeaveSession ==
    [][/\ last'.op = "leaveSession" =>
            /\ sessionState' = "idle"
            /\ peersRef' = <<>>
            /\ \A i \in 1..Len(peersRef) :
                  peersRef[i].pc # 0 => conns'[peersRef[i].pc].closed
            /\ ~\E t \in tasks' : t.k \in Subscribed
            /\ (\E t \in tasks' \ tasks : t.k = "deleteReq")
                  <=> (isHostRef /\ sessionNameRef # Null /\ hostIdRef # Null)
       /\ (sessionState = "idle" /\ sessionState' # "idle") =>
            last'.op = "connectToSession"
      ]_vars

\* C15: when the directory rejects the client's create-session with "name
\* taken", the callback that receives the rejection leaves the client in
\* sessionState = error with an error message, and with no timer and no
\* directory request of that connect call left to run.
C15_NameTakenTerminal ==
    [][\A t \in tasks \ tasks' :
          (/\ t.k = "createResp"
           /\ ~t.res.ok
           /\ t.res.error = "Session name already taken"
           /\ Live(t.att)
           /\ last'.op = "callback")
          => /\ sessionState' = "error"
             /\ errorMessage' # Null
             /\ ~\E x \in tasks' : x.att = t.att /\ x.k \in Requests \cup Subscribed
      ]_vars


\* The joiner-side connections whose data channel closed, or whose
\* connectionState became disconnected / failed, in this step, while the client
\* was a connected joiner on them and had received the response to its
\* submit-answer request (its disconnect observer is subscribed).
LostHostLink ==
    {h \in DOMAIN conns :
        /\ conns[h].side = "joiner"
        /\ conns[h].link = "up"
        /\ conns'[h].link = "down" \/ (~conns[h].failed /\ conns'[h].failed)
        /\ sessionState = "connected"
        /\ Live(conns[h].att)
        /\ \E t \in tasks : t.k = "joined" /\ t.conn = h
        /\ PeerIdx(peersRef, "host") # 0
        /\ peersRef[PeerIdx(peersRef, "host")].pc = h}

\* C11: joiner reconnect.  When a connected joiner loses its connection to the
\* host, in the same callback sessionState becomes connecting, the connection
\* is closed, the "host" entry is removed from the registry and the 3 s
\* backoff timer is started, whose expiry issues a join-session request for
\* the same session name.
C11_JoinerReconnect ==
    [][\A h \in LostHostLink :
          /\ sessionState' = "connecting"
          /\ conns'[h].closed
          /\ PeerIdx(peersRef', "host") = 0
          /\ \E t \in tasks' : /\ t.k = "retryWait"
                               /\ t.att = conns[h].att
                               /\ t.name = sessionNameRef
      ]_vars

\* The registry entries of the client whose connection was taken by the
\* remote participant p.
EntriesFor(p) ==
    {i \in 1..Len(peersRef) : peersRef[i].pc # 0 /\ conns[peersRef[i].pc].taker = p}

\* C12: no duplicate peer entries across a reconnect.  Once a remote joiner
\* has been connected to the hosting client and has lost that connection, the
\* host's registry never holds more than one entry standing for that joiner.
C12_NoDuplicateEntries ==
    \A p \in {RemotePeer} :
        (\E h \in DOMAIN conns : conns[h].taker = p /\ conns[h].link = "down")
            => Cardinality(EntriesFor(p)) <= 1


\* The hosting client's session has no offer, and nothing that could lead to a
\* next one is under way: the directory holds no answer, no joiner holds an
\* offer it could still answer, and the host's poll loop is only polling.
Orphaned ==
    /\ sessionState = "hosting" /\ subOpen
    /\ Has(sessions, sessionNameRef)
    /\ sessions[sessionNameRef].hostId = hostIdRef
    /\ sessions[sessionNameRef].currentOffer = Null
    /\ sessions[sessionNameRef].pendingAnswer = NullAnswer
    /\ held = Null
    /\ \A t \in tasks :
          \/ t.k \in {"pollReq", "pollWait"}
          \/ t.k = "pollResp" /\ ~(t.res.ok /\ "answer" \in DOMAIN t.res)

\* C13: busy is transient.  While the client is hosting and polling, a
\* consumed offer is always followed by a next one, whatever the joiner that
\* consumed it does and whatever happens to the host's poll responses: the
\* session is never left without an offer and without anything under way that
\* would publish one.
C13_BusyIsTransient == ~Orphaned


\* The connections of the subscribed attempt whose offer has been created and
\* whose answer has not been accepted.
Outstanding ==
    {h \in DOMAIN conns :
        /\ conns[h].side = "host" /\ conns[h].att = subRef
        /\ conns[h].made /\ ~conns[h].ice /\ ~conns[h].closed}

\* The poll loop of the subscribed attempt between two handshakes.
Polling == {t \in tasks : t.att = subRef /\ t.k \in {"pollReq", "pollResp", "pollWait"}}

\* C14: single outstanding offer.  While the client is hosting and its poll
\* loop is polling, the client has exactly one created offer whose answer it
\* has not accepted, it is the offer of the connection the poll loop tracks as
\* current, and the directory's currentOffer for the session, while the client
\* is its host, is null or that offer.
C14_SingleOutstandingOffer ==
    (sessionState = "hosting" /\ subOpen) =>
        \A t \in Polling :
            /\ Outstanding = {t.conn}
            /\ (Has(sessions, t.name) /\ sessions[t.name].hostId = t.hostId)
                  => sessions[t.name].currentOffer \in {Null, OfferOf(t.conn)}


\* The step is an event that concerns one peer: a data channel opened or
\* closed, a connection became disconnected / failed, an answer handshake or
\* an offer creation settled, or the peer sweep ran.
PeerEvent ==
    \/ \E h \in DOMAIN conns : conns[h].link # conns'[h].link
    \/ \E h \in DOMAIN conns : ~conns[h].failed /\ conns'[h].failed
    \/ \E t \in tasks \ tasks' : t.k \in {"acceptAnswer", "createOffer"}
    \/ last'.op = "sweep"

\* The subscribed attempt is hosting: its poll loop is polling or in a
\* handshake.
HostFlow ==
    {t \in tasks : /\ t.att = subRef
                   /\ \/ t.k \in {"pollReq", "pollResp", "pollWait", "acceptAnswer"}
                      \/ t.from = "handshake"}

\* C20: while sessionState = hosting, no event concerning an individual peer
\* changes sessionState.
C20_HostingIsStable ==
    [][(/\ sessionState = "hosting" /\ subOpen /\ HostFlow # {}
        /\ PeerEvent /\ last'.op \in {"callback", "sweep"})
          => sessionState' = "hosting"]_vars

----------------------------------------------------------------------------
(* Claims about the update relay *)

\* The registry entries of x that hold an open data channel.
OpenEntries(x) == {k \in Keys(x) : EntryOf(x, k).dc /\ ReadyOpen(EndOf(x, k))}

\* What a step has sent on link l in direction w.
Appended(l, w) ==
    LET old == wire[l][w]
        new == wire'[l][w]
    IN IF Len(new) >= Len(old) /\ SubSeq(new, 1, Len(old)) = old
       THEN SubSeq(new, Len(old) + 1, Len(new))
       ELSE <<Null>>

Back(w) == IF w = "up" THEN "down" ELSE "up"

\* A step in which party x handles the message at the head of link l.
Handles(x, l) ==
    /\ ev'.op = "message" /\ ev'.at = x /\ LinkOf(x, ev'.from) = l
    /\ wire[l][Back(Way(x))] # <<>>
    /\ wire'[l][Back(Way(x))] = Tail(wire[l][Back(Way(x))])
    /\ ev'.msg = Head(wire[l][Back(Way(x))])

\* C18: a local edit is sent exactly once on every open data channel of the
\* editor's registry and nowhere else, and a party that applies a received
\* update sends nothing back on the link it came from.
C18_LocalBroadcastNoEcho ==
    [][/\ \A x \in Parties :
            (ev'.op = "edit" /\ ev'.at = x /\ edits' = edits + 1) =>
                \A l \in PeerIds : \A w \in {"up", "down"} :
                    Appended(l, w) =
                        IF w = Way(x) /\ \E k \in OpenEntries(x) : LinkOf(x, k) = l
                        THEN <<ev'.msg>> ELSE <<>>
       /\ \A x \in Parties : \A l \in PeerIds :
            Handles(x, l) => Appended(l, Way(x)) = <<>>]_vars

C18_Witness ==
    /\ ev.op = "edit" /\ ev.at = Host
    /\ OpenEntries(Host) = PeerIds
    /\ \A p \in PeerIds :
          wire[p].down # <<>> /\ wire[p].down[Len(wire[p].down)] = ev.msg
    /\ \E p \in PeerIds : docs[Host] \cap docs[p] # {}

\* C17: the host applies an update received from joiner p with origin
\* "remote" and sends it exactly once to every other entry holding an open
\* channel, never to p; a joiner applies what it receives and sends nothing.
C17_StarRelay ==
    [][/\ \A p \in PeerIds :
            Handles(Host, p) =>
                /\ docs'[Host] = docs[Host] \cup ev'.msg.body
                /\ ev'.origin = "remote"
                /\ \A q \in PeerIds :
                      /\ Appended(q, "down") =
                            IF q # p /\ q \in OpenEntries(Host)
                            THEN <<ev'.msg>> ELSE <<>>
                      /\ q # p => wire'[q].up = wire[q].up
       /\ \A x \in PeerIds :
            Handles(x, x) =>
                /\ docs'[x] = docs[x] \cup ev'.msg.body
                /\ \A l \in PeerIds :
                      /\ Appended(l, "up") = <<>>
                      /\ l # x => wire'[l].down = wire[l].down]_vars

C17_Witness ==
    /\ ev.op = "message" /\ ev.at = Host
    /\ ev.from \in OpenEntries(Host)
    /\ \E q \in OpenEntries(Host) \ {ev.from} :
          wire[q].down # <<>> /\ wire[q].down[Len(wire[q].down)] = ev.msg
    /\ ev.msg.body \subseteq docs[Host]

\* C16: once the host has handled the open event of an admitted joiner's
\* channel it has sent exactly one full-state snapshot on that channel, and
\* it sends none on a channel whose open event it has not handled.
C16_SnapshotOnOpen ==
    \A p \in PeerIds :
        /\ hostPeers[p].status = "connected" => snapshots[p] = 1
        /\ hostPeers[p].status \in {"none", "connecting"} => snapshots[p] = 0
        /\ snapshots[p] <= 1

Linked(p) ==
    hostPeers[p].status = "connected" /\ joinerPeers[p].status = "connected"

Quiet == \A p \in PeerIds : wire[p].up = <<>> /\ wire[p].down = <<>>

\* C19: when nothing is in flight, the host and every joiner connected to it
\* hold the same set of updates.
C19_Convergence ==
    Quiet => \A p \in PeerIds : Linked(p) => docs[p] = docs[Host]

----------------------------------------------------------------------------
(* Claims about the sweep and the failure reports of the directory *)

Rec(S, name) == IF Has(S, name) THEN S[name] ELSE Null
SameOutcome(a, b, name) == a.res = b.res /\ Rec(a.S, name) = Rec(b.S, name)

\* createSession and joinSession for `name` come out the same in the current
\* state and in the state a sweep would leave.
SweepTransparentFor(name) ==
    LET swept == cleanup(sessions, now) IN
    CASE variant = "slot" ->
            /\ SameOutcome(joinSession(sessions, now, name),
                           joinSession(swept, now, name), name)
            /\ \A h \in HostIds :
                  SameOutcome(createSession(sessions, now, name, h, Blob(issued + 1)),
                              createSession(swept, now, name, h, Blob(issued + 1)), name)
      [] variant = "queue" ->
            \A h \in HostIds :
                SameOutcome(createSessionQ(sessions, now, name, h),
                            createSessionQ(swept, now, name, h), name)
      [] variant = "api" ->
            \A h \in HostIds :
                SameOutcome(createSessionApi(sessions, now, name, h),
                            createSessionApi(swept, now, name, h), name)

\* A record past the maximum age whose host polled within the takeover threshold.
OldButPolled(name) ==
    /\ Has(sessions, name)
    /\ now - sessions[name].createdAt > SESSION_MAX_AGE_MS
    /\ ~Stale(sessions[name], now)

\* C24 as stated: in every reachable state and for every name, createSession
\* and joinSession return the same result and leave the same record for the
\* name whether or not a sweep ran immediately before.
C24_SweepTransparent == \A name \in Names : SweepTransparentFor(name)

\* C24 amended: a sweep changes the outcome exactly for a record older than
\* the maximum age whose host is still polling, and only where the sweep is
\* a timer of its own (not where createSession itself sweeps first).
C24_SweepTransparentUnlessOld ==
    \A name \in Names :
        SweepTransparentFor(name) <=> ~(variant \in {"slot", "queue"} /\ OldButPolled(name))

C24_Witness ==
    /\ ret.op \in {"createSession", "joinSession", "getJoinRequests", "pollAnswer"}
    /\ \E name \in Names :
          /\ Has(sessions, name) /\ Expired(sessions[name], now)
          /\ ~OldButPolled(name)
          /\ SweepTransparentFor(name)

\* C25: a sweep at time now removes exactly the sessions with
\* now - createdAt > 30 min or now - lastHostPoll > 2 min and leaves every
\* other record as it was; where createSession sweeps first, a record that
\* meets the condition does not stand in the way of the new session.
C25_SweepRemovesExpired ==
    [][/\ ret'.op = "sweep" =>
            /\ DOMAIN sessions' =
                  {n \in DOMAIN sessions :
                      ~(\/ now - sessions[n].createdAt > SESSION_MAX_AGE_MS
                        \/ now - sessions[n].lastHostPoll > HOST_POLL_TIMEOUT_MS)}
            /\ \A n \in DOMAIN sessions' : sessions'[n] = sessions[n]
       /\ (variant = "api" /\ ret'.op = "createSession" /\ Has(sessions, ret'.name)) =>
            LET s == sessions[ret'.name]
                due == \/ now - s.createdAt > SESSION_MAX_AGE_MS
                       \/ now - s.lastHostPoll > HOST_POLL_TIMEOUT_MS
            IN /\ due => ret'.res.ok /\ sessions'[ret'.name].createdAt = now
               /\ (~due /\ now - s.lastHostPoll <= STALE_TAKEOVER_MS) =>
                     ~ret'.res.ok /\ sessions' = sessions]_vars

\* A polled session has survived a sweep at exactly the maximum age.
C25_Witness ==
    /\ ret.op = "sweep"
    /\ \E n \in Names :
          /\ Has(sessions, n)
          /\ now - sessions[n].createdAt = SESSION_MAX_AGE_MS
          /\ now - sessions[n].lastHostPoll <= HOST_POLL_TIMEOUT_MS

HostAuthenticated == {"getJoinRequests", "pollAnswer", "replaceOffer", "deleteSession"}

\* Whether the call recorded in r failed, and what its caller can read from
\* the returned value about the cause.
Failed(r) == IF r.op = "deleteSession" THEN r.res = FALSE ELSE ~r.res.ok
ReasonRead(r) ==
    IF r.op = "deleteSession" THEN "unknown"
    ELSE IF r.res.error = "Session not found" THEN "not-found"
    ELSE IF r.res.error = "Not the host" THEN "not-host"
    ELSE "unknown"

\* C26: a failed host-authenticated operation returns a value that tells
\* not-found (no record for the name) from not-host (record of another host).
C26_FailureReasonDistinct ==
    (ret.op \in HostAuthenticated /\ Failed(ret)) =>
        ReasonRead(ret) = (IF ret.was = Null THEN "not-found" ELSE "not-host")

RequestOps ==
    {"joinSession", "createSession", "submitAnswer", "pollAnswer", "replaceOffer",
     "deleteSession", "submitJoinRequest", "getJoinRequests", "getAnswer"}

\* A response whose body is an object with a boolean ok equal to `succeeded`,
\* with an error when ok is false, and whose status is 2xx exactly when ok.
WellFormed(resp, succeeded) ==
    /\ resp.body.kind = "object"
    /\ "ok" \in DOMAIN resp.body.fields
    /\ resp.body.fields.ok \in BOOLEAN
    /\ resp.body.fields.ok = succeeded
    /\ ~resp.body.fields.ok => "error" \in DOMAIN resp.body.fields
    /\ (resp.status \in 200..299) <=> resp.body.fields.ok

\* C27: for every action and request, the response body is an object whose
\* boolean ok is true exactly when the directory operation succeeded, a
\* failure body carries an error string, and the status is 2xx exactly when
\* ok is true.
C27_ResponseShape ==
    ret.op \in RequestOps =>
        \A handler \in Handlers(variant) : WellFormed(Respond(handler, ret), ~Failed(ret))

\* The accepted answers the directory holds for a name.
PendingOf(S, n) ==
    IF variant = "slot"
    THEN (IF S[n].pendingAnswer = NullAnswer THEN {} ELSE {S[n].pendingAnswer.answer})
    ELSE {S[n].answers[p] : p \in DOMAIN S[n].answers}

\* C28: as long as the session's record exists, an accepted answer stays in
\* the directory until a getAnswer / pollAnswer call returns it: no step
\* overwrites or drops it.
C28_NoAnswerLost ==
    [][\A n \in DOMAIN sessions \cap DOMAIN sessions' :
          \A a \in PendingOf(sessions, n) :
              \/ a \in PendingOf(sessions', n)
              \/ ret'.op \in {"pollAnswer", "getAnswer"} /\ a \in ReturnedAnswers(ret'.res)]_vars

----------------------------------------------------------------------------
(* Claims about the orchestrator's handling of directory failures *)

\* The responses to requests of the live attempt that a step has handled.
Handled(kinds, error) ==
    {t \in tasks \ tasks' :
        /\ t.k \in kinds /\ ~t.res.ok /\ t.res.error = error
        /\ Live(t.att) /\ last'.op = "callback"}

\* C21: a hosting client whose poll-answer or replace-offer request is
\* answered not-host enters sessionState = error with a message and stops
\* polling.
C21_NotHostIsTerminal ==
    [][\A t \in Handled({"pollResp", "replaceResp"}, "Not the host") :
          /\ sessionState' = "error"
          /\ errorMessage' # Null
          /\ ~\E x \in tasks' : x.att = t.att /\ x.k \in {"pollReq", "pollWait"}]_vars

\* C22: a client whose poll-answer, replace-offer or submit-answer request
\* is answered not-found returns to connecting and restarts discovery for
\* the same session name.
C22_NotFoundReconnects ==
    [][\A t \in Handled({"pollResp", "replaceResp", "submitResp"}, "Session not found") :
          /\ sessionState' = "connecting"
          /\ \E x \in tasks' :
                x.att = t.att /\ x.k \in {"retryWait", "joinReq"} /\ x.name = t.name]_vars

\* The client is hosting a name whose directory record belongs to another host.
Ousted ==
    /\ sessionState = "hosting" /\ subOpen
    /\ Has(sessions, sessionNameRef)
    /\ sessions[sessionNameRef].hostId # hostIdRef

\* C23 (the step that ends the overlap): a client hosting a name that
\* another host has taken over stops being in sessionState hosting once its
\* poll-answer or replace-offer request has been answered not-host.
C23_OustedHostYields ==
    [][(Ousted /\ Handled({"pollResp", "replaceResp"}, "Not the host") # {})
          => sessionState' # "hosting"]_vars

----------------------------------------------------------------------------
(* Claims about the peer registry *)

\* The entry of peersRef' that is the same object as entry e of peersRef
\* (0 if it was removed or replaced).
SameEntry(e) ==
    LET j == PeerIdx(peersRef', e.peerId) IN
    IF j # 0 /\ peersRef'[j].pc = e.pc THEN j ELSE 0

Due(e) == e.status = "disconnected" /\ now - e.disconnectedAt > SWEEP_AGE_MS

----------------------------------------------------------------------------
(* Claims about connection handles and the registry                        *)

\* Connection h is the pc of a registry entry; the async function that
\* constructed it is still waiting for createOffer / acceptOffer.
Referenced(h) == \E i \in 1..Len(peersRef) : peersRef[i].pc = h
Awaited(h) == \E t \in tasks : t.k \in {"createOffer", "acceptOffer"} /\ t.conn = h

\* C31: no dangling connection handles: every connection that is still open
\* is the pc of a registry entry.  Exempt are a connection whose construction
\* is still awaited (its entry holds the null placeholder, or is registered
\* when acceptOffer resolves) and a host connection whose createOffer was
\* rejected.
C31_NoDanglingHandles ==
    \A h \in DOMAIN conns :
        (~conns[h].closed /\ (conns[h].made \/ conns[h].side = "joiner"))
            => Referenced(h) \/ Awaited(h)

\* What updatePeersState would publish for the registry as it is now.
Projection ==
    [i \in 1..Len(peersRef) |-> [peerId |-> peersRef[i].peerId, status |-> peersRef[i].status]]

\* C32: whenever control is back at the event loop, the exposed peers list is
\* the projection of the registry, one {peerId, status} per entry in registry
\* order (peerCount is the number of its connected items).
C32_RegistryInStep == peersShown = Projection

----------------------------------------------------------------------------
(* Claims about the host's identity and the handshake                      *)

\* C35: the client enters sessionState hosting only in the callback that
\* handles a successful create-session response of its current attempt, the
\* one whose subscription is open, and hostIdRef then holds the hostId that
\* the request carried.
C35_HostingMeansCreated ==
    [][(sessionState' = "hosting" /\ sessionState # "hosting")
          => \E t \in tasks \ tasks' :
                /\ t.k = "createResp" /\ t.res.ok
                /\ subOpen' /\ t.att = subRef'
                /\ hostIdRef' = t.hostId]_vars

\* C36: every answer the host hands to acceptAnswer was made by a joiner from
\* the offer of the connection it is applied to.  An answer that does not
\* decode is set aside: acceptAnswer rejects it.
C36_AnswerMatchesOffer ==
    \A t \in tasks :
        (t.k = "acceptAnswer" /\ t.blob # BadAnswer) => t.blob = AnswerTo(OfferOf(t.conn))

\* The record of the name was created at most 10 s ago.
Window(name) ==
    Has(sessions, name) /\ now - sessions[name].createdAt <= STALE_TAKEOVER_MS

\* C37: role=host reserves nothing, and createSession arbitrates: while the
\* record made by the first successful createSession stands and is at most
\* 10 s old, the createSession of any other host (the client's, a remote
\* host's) is refused with name taken and changes nothing; and the client
\* enters hosting only in the callback of a createSession that succeeded,
\* never in that of one that failed.
C37_OneHostPerName ==
    [][/\ \A t \in tasks \ tasks' :
            (t.k = "createReq" /\ Window(t.name) /\ sessions[t.name].hostId # t.hostId)
                => /\ sessions' = sessions
                   /\ \E r \in tasks' \ tasks :
                         /\ r.k = "createResp" /\ r.hostId = t.hostId
                         /\ r.res = [ok |-> FALSE, error |-> "Session name already taken"]
       /\ (issued' = issued + 1
             /\ \E name \in Names : Window(name) /\ sessions[name].hostId # RemoteHost)
                => sessions' = sessions
       /\ (sessionState' = "hosting" /\ sessionState # "hosting")
                => \E t \in tasks \ tasks' : t.k = "createResp" /\ t.res.ok
       /\ \A t \in tasks \ tasks' :
            (t.k = "createResp" /\ ~t.res.ok /\ Live(t.att)) => sessionState' = "connecting"]_vars

\* The client was told role=host while a remote host was about to create the
\* same name; the remote host's createSession came first, the client's was
\* refused within the 10 s window, and the client went back to connecting.
C37_Witness ==
    /\ \E name \in Names :
          Window(name) /\ sessions[name].hostId = RemoteHost
    /\ sessionState = "connecting"
    /\ hostIdRef = Null
    /\ uuids > 0
    /\ \E t \in tasks : t.k = "retryWait" /\ Live(t.att)
    /\ \E h \in DOMAIN conns : conns[h].side = "host" /\ conns[h].made /\ conns[h].closed

----------------------------------------------------------------------------
(* Claims about the host's sign of life                                    *)

JoinerOps == {"joinSession", "submitJoinRequest", "submitAnswer", "getAnswer", "replaceOffer"}

\* C38: lastHostPoll of a record is written by a successful createSession and
\* by a successful getJoinRequests / pollAnswer of the stored host, always
\* with the time of the call, and by nothing else: joinSession,
\* submitJoinRequest, submitAnswer, getAnswer and replaceOffer leave it as it
\* is, and it never decreases.  So a record last polled more than 10 s ago
\* is taken over by another host's createSession whatever the joiners did
\* in between, and one polled at most 10 s ago is not (unless, in
\* api/_signaling.ts, it is older than 30 minutes).
C38_LastHostPoll ==
    [][\A n \in Names :
        /\ (Has(sessions, n) /\ Has(sessions', n)) =>
              /\ sessions'[n].lastHostPoll >= sessions[n].lastHostPoll
              /\ sessions'[n].lastHostPoll # sessions[n].lastHostPoll =>
                    /\ sessions'[n].lastHostPoll = now
                    /\ ret'.name = n /\ ret'.res.ok
                    /\ \/ ret'.op = "createSession"
                       \/ /\ ret'.op \in {"getJoinRequests", "pollAnswer"}
                          /\ ret'.hostId = sessions[n].hostId
              /\ ret'.op \in JoinerOps =>
                    sessions'[n].lastHostPoll = sessions[n].lastHostPoll
        /\ (~Has(sessions, n) /\ Has(sessions', n)) =>
              /\ ret'.op = "createSession" /\ ret'.res.ok
              /\ sessions'[n].lastHostPoll = now
        /\ (ret'.op = "createSession" /\ ret'.name = n /\ Has(sessions, n)) =>
              /\ now - sessions[n].lastHostPoll > STALE_TAKEOVER_MS => ret'.res.ok
              /\ ret'.res.ok =>
                    \/ now - sessions[n].lastHostPoll > STALE_TAKEOVER_MS
                    \/ variant = "api" /\ now - sessions[n].createdAt > SESSION_MAX_AGE_MS
      ]_vars

\* A joiner's call has just been served on a record whose host polled
\* earlier, at a time that is neither the record's creation nor now.
C38_Witness ==
    /\ ret.op \in JoinerOps /\ ret.op # "replaceOffer"
    /\ Has(sessions, ret.name)
    /\ sessions[ret.name].createdAt < sessions[ret.name].lastHostPoll
    /\ sessions[ret.name].lastHostPoll < now

----------------------------------------------------------------------------
(* Claims about the null placeholder of a registry entry                   *)

\* C39: in every state in which a close loop can run (leaveSession and
\* connectToSession may be called at any time), every registry entry has its
\* connection handle set.
C39_HandleSetWhenClosable ==
    (ENABLED LeaveSession \/ ENABLED ConnectToSession)
        => \A i \in 1..Len(peersRef) : peersRef[i].pc # 0

(***************************************************************************)
(* Claims about the answer poll of the queue protocol's joiner              *)
(***************************************************************************)

\* The "host" entry of the joiner's current attempt, while its connection is
\* open and has been given no answer.
AwaitsAnswer(h) ==
    /\ joinedSessionRef # Null
    /\ \E i \in 1..Len(peersRef) : peersRef[i].peerId = "host" /\ peersRef[i].pc = h
    /\ conns[h].att = joinAttemptRef
    /\ ~conns[h].closed /\ ~conns[h].ice

\* C33: in the queue protocol a join attempt whose get-answer requests
\* return no answer ends: while the attempt waits for its answer its poll
\* timer runs (so that after at most 30 requests, one a second, the timer
\* is cleared, the connection closed, the "host" entry removed and one new
\* attempt started 3 s later).
C33_PollingUntilTimeout ==
    \A h \in DOMAIN conns :
        AwaitsAnswer(h) => \E t \in tasks : t.k = "interval" /\ t.att = joinAttemptRef /\ t.conn = h

(***************************************************************************)
(* Claims about debounced persistence                                       *)
(***************************************************************************)

\* C34: a burst of document updates (local or remote, each less than 2 s
\* after the one before) is followed by exactly one save, 2 s after its last
\* update, and no save happens inside the burst.  Every save in the log
\* comes directly after an update made 2 s earlier (so no two saves follow
\* one update); an update that comes after a save is at least 2 s younger
\* than the update before that save; two updates with nothing between them
\* are at most 2 s apart; and while the last update waits for its save,
\* exactly one timer is pending, due 2 s after that update, and it fires
\* before time passes it.
C34_DebouncedSave ==
    /\ \A i \in 1..Len(saveLog) :
        saveLog[i].kind = "save" =>
            /\ i > 1 /\ saveLog[i - 1].kind = "update"
            /\ saveLog[i].at = saveLog[i - 1].at + DEBOUNCE_MS
            /\ i < Len(saveLog) => saveLog[i + 1].at - saveLog[i - 1].at >= DEBOUNCE_MS
    /\ \A i \in 1..(Len(saveLog) - 1) :
        (saveLog[i].kind = "update" /\ saveLog[i + 1].kind = "update")
            => saveLog[i + 1].at - saveLog[i].at <= DEBOUNCE_MS
    /\ IF saveLog # <<>> /\ saveLog[Len(saveLog)].kind = "update"
       THEN /\ saveTimers = {SaveTimer(saveTimerRef, saveLog[Len(saveLog)].at + DEBOUNCE_MS)}
            /\ now <= saveLog[Len(saveLog)].at + DEBOUNCE_MS
            /\ now = saveLog[Len(saveLog)].at + DEBOUNCE_MS => ENABLED SaveTimerFires
       ELSE saveTimers = {}

\* A burst of a local and a remote update one second apart, saved once, two
\* seconds after the remote update.
C34_Witness ==
    /\ Len(saveLog) = 3
    /\ saveLog[1].kind = "update" /\ saveLog[1].origin = "local"
    /\ saveLog[2].kind = "update" /\ saveLog[2].origin = "remote"
    /\ saveLog[2].at - saveLog[1].at = SaveStep
    /\ saveLog[3].kind = "save" /\ saveLog[3].at = saveLog[2].at + DEBOUNCE_MS
    /\ now > saveLog[3].at
    /\ saveTimers = {}

============================================================================
